---- MODULE Spec2Model ----
(***************************************************************************)
(* Transaction ledger ingestion (TransactionTracker) and the streaming     *)
(* analyzer (ComprehensiveTransactionAnalyzer) of 2100-monitor.            *)
(***************************************************************************)
EXTENDS Integers, Sequences, FiniteSets, TLC

(***************************************************************************)
(* Bounds of the model                                                     *)
(***************************************************************************)
MaxHead == 4
MaxStart == 2
MaxCrashes == 1
MaxFaults == 1

(***************************************************************************)
(* Configuration of the tracker (environment variables)                    *)
(***************************************************************************)
BatchSize == 3
MaxConcurrentRequests == 2
UpdateCap == 100

Address == "addr"
NoFile == [exists |-> FALSE]

Max(a, b) == IF a >= b THEN a ELSE b
Min(a, b) == IF a <= b THEN a ELSE b

(***************************************************************************)
(* The chain served by the RPC endpoint: the transactions of each block.   *)
(***************************************************************************)
ChainTxs(b) ==
    CASE b = 2 -> << [hash |-> "tA", from |-> "u1", to |-> "addr", value |-> 200, status |-> "success"] >>
      [] b = 3 -> << [hash |-> "tX", from |-> "u1", to |-> "u2", value |-> 200, status |-> "success"],
                     [hash |-> "tB", from |-> "addr", to |-> "u1", value |-> 2000, status |-> "failed"],
                     [hash |-> "tD", from |-> "u2", to |-> "addr", value |-> 400, status |-> "success"] >>
      [] b = 4 -> << [hash |-> "tC", from |-> "u2", to |-> "ADDR", value |-> 20000, status |-> "success"] >>
      [] OTHER -> << >>

BlockTimestamp(b) == b

ToLowerCase(s) == IF s = "ADDR" THEN "addr" ELSE s

\* filterTransactionsForAddress
FilterTransactionsForAddress(txs) ==
    SelectSeq(txs, LAMBDA tx : ToLowerCase(tx.to) = ToLowerCase(Address)
                               \/ ToLowerCase(tx.from) = ToLowerCase(Address))

\* processTransaction: the ledger record of tx in block b, given the receipt
\* outcome rc ("success", "failed", or "unknown" for a null receipt)
TxData(tx, b, rc) ==
    [blockNumber |-> b, transactionHash |-> tx.hash, from |-> tx.from, to |-> tx.to,
     value |-> tx.value, timestamp |-> BlockTimestamp(b), status |-> rc]

VARIABLES
    startBlock, lastProcessedBlock, processedBlocks, initialScanCompleted,
    csvExists, csv, progressFile,
    pc, caller, toBlock, batchStart, chunks, allBatchTransactions, jobs,
    latest,
    inv, deferred, unappended, faults, crashes, clean,
    overlap

trackerVars == << startBlock, lastProcessedBlock, processedBlocks, initialScanCompleted,
                  csvExists, csv, progressFile,
                  pc, caller, toBlock, batchStart, chunks, allBatchTransactions, jobs,
                  latest, inv, deferred, unappended, faults, crashes, clean, overlap >>

\* the analyzer (ComprehensiveTransactionAnalyzer)
VARIABLES
    ledger, apc, clock, agentAddress, timeCutoffs, pos,
    txidSet, duplicates, duplicateTransactions, duplicateCount,
    analytics, dailyAnalytics, last14DaysBreakdown, processedCount, excludedCount,
    errorCount, averages

anVars == << ledger, apc, clock, agentAddress, timeCutoffs, pos,
             txidSet, duplicates, duplicateTransactions, duplicateCount,
             analytics, dailyAnalytics, last14DaysBreakdown, processedCount, excludedCount,
             errorCount, averages >>

\* one makeRpcCall invocation
VARIABLES
    rpcPc, rpcMethod, retryCount, attempts, delays, attemptLog, rpcOutcome

rpcVars == << rpcPc, rpcMethod, retryCount, attempts, delays, attemptLog, rpcOutcome >>

\* spins_calc.js: the parsed log, and what findMidnightSpins returned
VARIABLES
    logData, spinsPc, dailySpinsResult

spinVars == << logData, spinsPc, dailySpinsResult >>

vars == << trackerVars, anVars, rpcVars, spinVars >>

\* spins_calc.js is not running
SpinsOff ==
    /\ logData = << >>
    /\ spinsPc = "off"
    /\ dailySpinsResult = << >>

(***************************************************************************)
(* makeRpcCall (lines 376-412)                                             *)
(*                                                                         *)
(* rpcPc is the position of the call: "post" while an axios.post is        *)
(* awaited, "delay" while the timer of line 406 runs, "returned" and       *)
(* "thrown" once the call is over.  attempts counts the posts of the call, *)
(* attemptLog holds the replies they got, delays the timers that ran.      *)
(***************************************************************************)
maxRetries == 3
DelayStep == 100
DelayCap == 500

Methods == {"eth_blockNumber", "eth_getBlockByNumber", "eth_getTransactionReceipt"}

\* response.data.result of a reply without error; null for a block or a
\* receipt the node does not have
RpcResults(method) ==
    CASE method = "eth_blockNumber" -> {"0x4"}
      [] method = "eth_getBlockByNumber" -> {"block", "null"}
      [] OTHER -> {"receipt", "null"}

\* the ways an attempt fails: response.data.error is set (line 396), the
\* request times out, the connection is refused
Failures == {"rpcerror", "timeout", "refused"}

\* an attempt that counts null results as failures
AttemptFailsOrNull(reply) == reply.kind # "ok" \/ reply.result = "null"

\* lines 396-402: the attempt ends in the catch block
AttemptFails(reply) == reply.kind # "ok"

\* the timer of every retry set to DelayStep
RetryDelayFlat(k) == DelayStep

\* line 405
RetryDelay(k) == Min(DelayStep * k, DelayCap)

RpcOff ==
    /\ rpcPc = "off"
    /\ rpcMethod = "none"
    /\ retryCount = 0
    /\ attempts = 0
    /\ delays = << >>
    /\ attemptLog = << >>
    /\ rpcOutcome = "none"

RpcInit ==
    /\ rpcPc = "idle"
    /\ rpcMethod = "none"
    /\ retryCount = 0
    /\ attempts = 0
    /\ delays = << >>
    /\ attemptLog = << >>
    /\ rpcOutcome = "none"

\* lines 376-382: the call starts and posts its first request
MakeRpcCall(method) ==
    /\ rpcPc \in {"idle", "returned", "thrown"}
    /\ rpcMethod' = method
    /\ retryCount' = 0
    /\ attempts' = 1
    /\ delays' = << >>
    /\ attemptLog' = << >>
    /\ rpcOutcome' = "none"
    /\ rpcPc' = "post"
    /\ UNCHANGED << trackerVars, anVars, spinVars >>

\* the awaited post settles with reply (lines 382-410)
RpcReply(reply) ==
    /\ rpcPc = "post"
    /\ attemptLog' = Append(attemptLog, reply)
    /\ IF AttemptFails(reply)
       THEN /\ retryCount' = retryCount + 1
            /\ IF retryCount + 1 < maxRetries
               THEN /\ delays' = Append(delays, RetryDelay(retryCount + 1))
                    /\ rpcPc' = "delay"
                    /\ UNCHANGED rpcOutcome
               ELSE /\ rpcPc' = "thrown"
                    /\ rpcOutcome' = reply.kind
                    /\ UNCHANGED delays
       ELSE /\ rpcPc' = "returned"
            /\ rpcOutcome' = reply.result
            /\ UNCHANGED << retryCount, delays >>
    /\ UNCHANGED << rpcMethod, attempts >>
    /\ UNCHANGED << trackerVars, anVars, spinVars >>

\* an attempt answered without error
RpcReplyResult(r) ==
    /\ r \in RpcResults(rpcMethod)
    /\ RpcReply([kind |-> "ok", result |-> r])

\* an attempt that failed
RpcReplyFailure(f) ==
    /\ f \in Failures
    /\ RpcReply([kind |-> f, result |-> "none"])

\* the timer of line 406 fires: the loop posts the next request
RpcDelayOver ==
    /\ rpcPc = "delay"
    /\ retryCount < maxRetries
    /\ attempts' = attempts + 1
    /\ rpcPc' = "post"
    /\ UNCHANGED << rpcMethod, retryCount, delays, attemptLog, rpcOutcome >>
    /\ UNCHANGED << trackerVars, anVars, spinVars >>


NoInv == [from |-> 1, to |-> 0, allDone |-> FALSE, fetched |-> {}, appended |-> 0, done |-> FALSE]

\* no second updateTransactions invocation is running beside the one of pc
NoOverlap == [pc |-> "none", toBlock |-> 0, batchStart |-> 0, chunks |-> << >>,
              all |-> << >>, fetched |-> {}]

(***************************************************************************)
(* Helpers of the scan loop                                                *)
(***************************************************************************)
RECURSIVE AllBlocksIn(_, _, _)
\* the batch without the processed-block filter
AllBlocksIn(lo, hi, done) ==
    IF lo > hi THEN << >> ELSE << lo >> \o AllBlocksIn(lo + 1, hi, done)

RECURSIVE UnprocessedIn(_, _, _)
\* lines 261-268: the blocks of batchStart..batchEnd not yet in processedBlocks
UnprocessedIn(lo, hi, done) ==
    IF lo > hi THEN << >>
    ELSE IF lo \in done THEN UnprocessedIn(lo + 1, hi, done)
         ELSE << lo >> \o UnprocessedIn(lo + 1, hi, done)

RECURSIVE chunkArray(_, _)
chunkArray(array, chunkSize) ==
    IF array = << >> THEN << >>
    ELSE IF Len(array) <= chunkSize THEN << array >>
         ELSE << SubSeq(array, 1, chunkSize) >>
              \o chunkArray(SubSeq(array, chunkSize + 1, Len(array)), chunkSize)

SeqSet(s) == { s[i] : i \in 1..Len(s) }

\* what saveProgress writes
ProgressRecord(last, done, isc, sb) ==
    [exists |-> TRUE, lastProcessedBlock |-> last, processedBlocks |-> done,
     initialScanCompleted |-> isc, startBlock |-> sb]

(***************************************************************************)
(* loadProgress                                                            *)
(***************************************************************************)
\* loadFromProgressFile without the START_BLOCK filter of lines 114-115
LoadFromProgressFileUnfiltered(pf, sb) ==
    IF pf.exists
    THEN [last |-> pf.lastProcessedBlock, done |-> pf.processedBlocks,
          isc |-> pf.initialScanCompleted]
    ELSE [last |-> 0, done |-> {}, isc |-> FALSE]

\* loadFromProgressFile: the three fields after the call
LoadFromProgressFile(pf, sb) ==
    IF pf.exists
    THEN [last |-> pf.lastProcessedBlock,
          done |-> { b \in pf.processedBlocks : b >= sb },
          isc |-> pf.initialScanCompleted]
    ELSE [last |-> 0, done |-> {}, isc |-> FALSE]

CsvBlocks(rows, sb) == { rows[i].blockNumber : i \in 1..Len(rows) } \cap { b \in 0..(MaxHead + 1) : b >= sb }

SetMax(S) == IF S = {} THEN 0 ELSE CHOOSE m \in S : \A x \in S : x <= m

\* loadFromCSV without the saveProgress of line 165
LoadFromCSVNoSave(p, rows, sb) ==
    IF Len(rows) = 0
    THEN [last |-> Max(0, sb - 1), done |-> p.done, isc |-> p.isc, save |-> FALSE]
    ELSE [last |-> Max(SetMax(CsvBlocks(rows, sb)), sb - 1),
          done |-> CsvBlocks(rows, sb), isc |-> p.isc, save |-> FALSE]

\* loadFromCSV: the fields after the call, and whether it saves a progress record
LoadFromCSV(p, rows, sb) ==
    IF Len(rows) = 0
    THEN [last |-> Max(0, sb - 1), done |-> p.done, isc |-> p.isc, save |-> FALSE]
    ELSE [last |-> Max(SetMax(CsvBlocks(rows, sb)), sb - 1),
          done |-> CsvBlocks(rows, sb), isc |-> p.isc, save |-> TRUE]

\* lines 88-92: never go below START_BLOCK
ClampToStart(last, sb) == IF last < sb THEN Max(0, sb - 1) ELSE last

TrackerInit ==
    /\ startBlock \in 1..MaxStart
    /\ lastProcessedBlock = 0
    /\ processedBlocks = {}
    /\ initialScanCompleted = FALSE
    /\ csvExists = FALSE
    /\ csv = << >>
    /\ progressFile = NoFile
    /\ pc = "down"
    /\ caller = "none"
    /\ toBlock = 0
    /\ batchStart = 0
    /\ chunks = << >>
    /\ allBatchTransactions = << >>
    /\ jobs = << >>
    /\ latest = 1
    /\ inv = NoInv
    /\ deferred = {}
    /\ unappended = {}
    /\ faults = 0
    /\ crashes = 0
    /\ clean = TRUE
    /\ overlap = NoOverlap

(***************************************************************************)
(* Shorthands                                                              *)
(***************************************************************************)
scanLocals == << caller, toBlock, batchStart, chunks, allBatchTransactions, jobs >>
memory == << startBlock, lastProcessedBlock, processedBlocks, initialScanCompleted >>
disk == << csvExists, csv, progressFile >>
ghosts == << inv, deferred, unappended, faults, crashes, clean >>

\* an injected failure of the RPC endpoint or of the file system
Fault ==
    /\ faults < MaxFaults
    /\ faults' = faults + 1
    /\ clean' = FALSE

NoFault == UNCHANGED << faults, clean >>

\* saveProgress (lines 177-193): a failed write is logged and swallowed
SaveProgress(ok, last, done, isc) ==
    IF ok
    THEN progressFile' = ProgressRecord(last, done, isc, startBlock) /\ NoFault
    ELSE UNCHANGED progressFile /\ Fault

\* entry of scanBlockRangeParallel (lines 238-259)
EnterScan(from, to, who) ==
    LET actualFromBlock == Max(from, startBlock) IN
    /\ pc' = IF actualFromBlock > to THEN "return" ELSE "batch"
    /\ batchStart' = actualFromBlock
    /\ toBlock' = to
    /\ caller' = who
    /\ chunks' = << >>
    /\ allBatchTransactions' = << >>
    /\ jobs' = << >>
    /\ inv' = [from |-> from, to |-> to,
               allDone |-> from <= to /\ \A i \in from..to : i \in processedBlocks,
               fetched |-> {}, appended |-> 0, done |-> FALSE]

ResetLocals ==
    /\ caller' = "none"
    /\ toBlock' = 0
    /\ batchStart' = 0
    /\ chunks' = << >>
    /\ allBatchTransactions' = << >>
    /\ jobs' = << >>

(***************************************************************************)
(* Start-up: constructor, ensureCsvFile, loadProgress                      *)
(***************************************************************************)
\* ensureCsvFile rewriting the file whether or not it exists
EnsureCsvFileAlways(exists, rows) == << >>

\* ensureCsvFile (lines 502-511): the data rows of the ledger after the call;
\* the header line is written only when fs.access fails
EnsureCsvFile(exists, rows) == IF exists THEN rows ELSE << >>

\* constructor (lines 9-49) and ensureCsvFile (lines 502-511)
Start(sb) ==
    /\ pc = "down"
    /\ startBlock' = sb
    /\ lastProcessedBlock' = 0
    /\ processedBlocks' = {}
    /\ initialScanCompleted' = FALSE
    /\ csvExists' = TRUE
    /\ csv' = EnsureCsvFile(csvExists, csv)
    /\ pc' = "load"
    /\ clean' = (clean /\ sb = startBlock)
    /\ UNCHANGED << progressFile, scanLocals, latest, inv, deferred, unappended, faults, crashes >>
    /\ UNCHANGED << anVars, rpcVars, spinVars, overlap >>

LoadProgress(ok) ==
    /\ pc = "load"
    /\ LET p1 == LoadFromProgressFile(progressFile, startBlock)
           p2 == IF p1.last = 0
                 THEN LoadFromCSV(p1, csv, startBlock)
                 ELSE [last |-> p1.last, done |-> p1.done, isc |-> p1.isc, save |-> FALSE]
       IN /\ lastProcessedBlock' = ClampToStart(p2.last, startBlock)
          /\ processedBlocks' = p2.done
          /\ initialScanCompleted' = p2.isc
          /\ IF p2.save
             THEN SaveProgress(ok, p2.last, p2.done, p2.isc)
             ELSE ok /\ UNCHANGED progressFile /\ NoFault
    /\ pc' = "initscan"
    /\ UNCHANGED << startBlock, csvExists, csv, scanLocals, latest, inv, deferred, unappended, crashes >>
    /\ UNCHANGED << anVars, rpcVars, spinVars, overlap >>

(***************************************************************************)
(* performInitialScan                                                      *)
(***************************************************************************)
\* getLatestBlockNumber throws: caught at line 230, initialScanCompleted stays false
InitialScanRpcError ==
    /\ pc = "initscan"
    /\ Fault
    /\ pc' = "idle"
    /\ UNCHANGED << memory, disk, scanLocals, latest, inv, deferred, unappended, crashes >>
    /\ UNCHANGED << anVars, rpcVars, spinVars, overlap >>

\* lines 206-211
InitialScanUpToDate(h, ok) ==
    /\ pc = "initscan"
    /\ h \in latest..MaxHead
    /\ Max(startBlock, lastProcessedBlock + 1) > h
    /\ latest' = h
    /\ initialScanCompleted' = TRUE
    /\ SaveProgress(ok, lastProcessedBlock, processedBlocks, TRUE)
    /\ pc' = "idle"
    /\ UNCHANGED << startBlock, lastProcessedBlock, processedBlocks, csvExists, csv,
                    scanLocals, inv, deferred, unappended, crashes >>
    /\ UNCHANGED << anVars, rpcVars, spinVars, overlap >>

\* lines 213-224
InitialScanBegin(h) ==
    /\ pc = "initscan"
    /\ h \in latest..MaxHead
    /\ Max(startBlock, lastProcessedBlock + 1) <= h
    /\ latest' = h
    /\ EnterScan(Max(startBlock, lastProcessedBlock + 1), h, "init")
    /\ UNCHANGED << memory, disk, deferred, unappended, faults, crashes, clean >>
    /\ UNCHANGED << anVars, rpcVars, spinVars, overlap >>

\* lines 226-228, after scanBlockRangeParallel has returned
InitialScanFinish(ok) ==
    /\ pc = "return"
    /\ caller = "init"
    /\ initialScanCompleted' = TRUE
    /\ SaveProgress(ok, lastProcessedBlock, processedBlocks, TRUE)
    /\ pc' = "idle"
    /\ inv' = [inv EXCEPT !.done = TRUE]
    /\ ResetLocals
    /\ UNCHANGED << startBlock, lastProcessedBlock, processedBlocks, csvExists, csv,
                    latest, deferred, unappended, crashes >>
    /\ UNCHANGED << anVars, rpcVars, spinVars, overlap >>

(***************************************************************************)
(* scanBlockRangeParallel: the batch loop                                  *)
(***************************************************************************)
BatchEnd == Min(batchStart + BatchSize - 1, toBlock)

\* the blocks the batch will fetch (lines 261-268)
BatchBlocks == UnprocessedIn(batchStart, BatchEnd, processedBlocks)

\* line 259: the loop condition fails, the method returns
ScanLoopExit ==
    /\ pc = "batch"
    /\ batchStart > toBlock
    /\ pc' = "return"
    /\ UNCHANGED << memory, disk, scanLocals, latest, ghosts >>
    /\ UNCHANGED << anVars, rpcVars, spinVars, overlap >>

\* lines 270-274: the whole batch is already processed
BatchSkip ==
    /\ pc = "batch"
    /\ batchStart <= toBlock
    /\ BatchBlocks = << >>
    /\ batchStart' = batchStart + BatchSize
    /\ UNCHANGED << pc, memory, disk, caller, toBlock, chunks, allBatchTransactions, jobs,
                    latest, ghosts >>
    /\ UNCHANGED << anVars, rpcVars, spinVars, overlap >>

\* lines 276-279
BatchPlan ==
    /\ pc = "batch"
    /\ batchStart <= toBlock
    /\ BatchBlocks # << >>
    /\ chunks' = chunkArray(BatchBlocks, MaxConcurrentRequests)
    /\ allBatchTransactions' = << >>
    /\ pc' = "chunk"
    /\ UNCHANGED << memory, disk, caller, toBlock, batchStart, jobs, latest, ghosts >>
    /\ UNCHANGED << anVars, rpcVars, spinVars, overlap >>

\* line 282: one processBlockParallel per block of the chunk, each awaiting getBlock
ChunkStart ==
    /\ pc = "chunk"
    /\ chunks # << >>
    /\ jobs' = [b \in SeqSet(Head(chunks)) |->
                   [st |-> "block", failed |-> FALSE, rel |-> << >>, res |-> << >>]]
    /\ inv' = [inv EXCEPT !.fetched = @ \cup SeqSet(Head(chunks))]
    /\ pc' = "await"
    /\ UNCHANGED << memory, disk, caller, toBlock, batchStart, chunks, allBatchTransactions,
                    latest, deferred, unappended, faults, crashes, clean >>
    /\ UNCHANGED << anVars, rpcVars, spinVars, overlap >>

\* processBlockParallel after getBlock answered with a block (lines 344-349)
BlockReply(b) ==
    /\ pc = "await"
    /\ b \in DOMAIN jobs
    /\ jobs[b].st = "block"
    /\ LET relevantTxs == FilterTransactionsForAddress(ChainTxs(b)) IN
       jobs' = [jobs EXCEPT ![b] =
                   [st |-> IF relevantTxs = << >> THEN "done" ELSE "rcpt",
                    failed |-> FALSE,
                    rel |-> relevantTxs,
                    res |-> [i \in 1..Len(relevantTxs) |-> "pending"]]]
    /\ UNCHANGED << pc, memory, disk, caller, toBlock, batchStart, chunks,
                    allBatchTransactions, latest, ghosts >>
    /\ UNCHANGED << anVars, rpcVars, spinVars, overlap >>

\* getBlock answered null (lines 340-342)
BlockReplyNull(b) ==
    /\ pc = "await"
    /\ b \in DOMAIN jobs
    /\ jobs[b].st = "block"
    /\ Fault
    /\ jobs' = [jobs EXCEPT ![b] = [st |-> "done", failed |-> FALSE, rel |-> << >>, res |-> << >>]]
    /\ UNCHANGED << pc, memory, disk, caller, toBlock, batchStart, chunks,
                    allBatchTransactions, latest, inv, deferred, unappended, crashes >>
    /\ UNCHANGED << anVars, rpcVars, spinVars, overlap >>

\* getBlock threw after its retries: the catch of lines 360-363 returns
\* { blockNum, transactions: [] }
BlockReplyError(b) ==
    /\ pc = "await"
    /\ b \in DOMAIN jobs
    /\ jobs[b].st = "block"
    /\ Fault
    /\ jobs' = [jobs EXCEPT ![b] = [st |-> "done", failed |-> TRUE, rel |-> << >>, res |-> << >>]]
    /\ UNCHANGED << pc, memory, disk, caller, toBlock, batchStart, chunks,
                    allBatchTransactions, latest, inv, deferred, unappended, crashes >>
    /\ UNCHANGED << anVars, rpcVars, spinVars, overlap >>

SettleJob(j) ==
    IF j.st = "rcpt" /\ \A i \in 1..Len(j.res) : j.res[i] # "pending"
    THEN [j EXCEPT !.st = "done"] ELSE j

\* processTransaction (lines 461-483): the receipt of the i-th relevant
\* transaction of block b arrives; out is "ok", "null" or "error"
ReceiptReply(b, i, out) ==
    /\ pc = "await"
    /\ b \in DOMAIN jobs
    /\ jobs[b].st = "rcpt"
    /\ i \in 1..Len(jobs[b].res)
    /\ jobs[b].res[i] = "pending"
    /\ IF out = "ok" THEN NoFault ELSE Fault
    /\ LET r == CASE out = "ok" -> jobs[b].rel[i].status
                  [] out = "null" -> "unknown"
                  [] OTHER -> "error"
       IN jobs' = [jobs EXCEPT ![b] = SettleJob([@ EXCEPT !.res[i] = r])]
    /\ UNCHANGED << pc, memory, disk, caller, toBlock, batchStart, chunks,
                    allBatchTransactions, latest, inv, deferred, unappended, crashes >>
    /\ UNCHANGED << anVars, rpcVars, spinVars, overlap >>

RECURSIVE JobTransactions(_, _, _)
\* lines 351-355: the fulfilled, non-null results of processTransaction, in order
JobTransactions(j, b, i) ==
    IF i > Len(j.rel) THEN << >>
    ELSE (IF j.res[i] = "error" THEN << >> ELSE << TxData(j.rel[i], b, j.res[i]) >>)
         \o JobTransactions(j, b, i + 1)

RECURSIVE ChunkTransactions(_, _)
ChunkTransactions(chunk, js) ==
    IF chunk = << >> THEN << >>
    ELSE JobTransactions(js[Head(chunk)], Head(chunk), 1) \o ChunkTransactions(Tail(chunk), js)

\* the set of blocks that the join marks as processed (lines 285-291)
MarkedBlocks(js) == DOMAIN js

\* lines 283-301: Promise.allSettled has returned for the chunk
ChunkJoin ==
    /\ pc = "await"
    /\ \A b \in DOMAIN jobs : jobs[b].st = "done"
    /\ processedBlocks' = processedBlocks \cup MarkedBlocks(jobs)
    /\ lastProcessedBlock' = Max(lastProcessedBlock, SetMax(MarkedBlocks(jobs)))
    /\ allBatchTransactions' = allBatchTransactions \o ChunkTransactions(Head(chunks), jobs)
    /\ deferred' = (deferred \ DOMAIN jobs) \cup { b \in DOMAIN jobs : jobs[b].failed }
    /\ unappended' = unappended \cup { b \in DOMAIN jobs : JobTransactions(jobs[b], b, 1) # << >> }
    /\ chunks' = Tail(chunks)
    /\ jobs' = << >>
    /\ pc' = "chunk"
    /\ UNCHANGED << startBlock, initialScanCompleted, disk, caller, toBlock, batchStart,
                    latest, inv, faults, crashes, clean >>
    /\ UNCHANGED << anVars, rpcVars, spinVars, overlap >>

\* lines 309-312: saveTransactionsToCSV appends the batch's rows
BatchAppend ==
    /\ pc = "chunk"
    /\ chunks = << >>
    /\ csv' = csv \o allBatchTransactions
    /\ inv' = [inv EXCEPT !.appended = @ + Len(allBatchTransactions)]
    /\ unappended' = unappended \ { allBatchTransactions[i].blockNumber :
                                        i \in 1..Len(allBatchTransactions) }
    /\ pc' = "save"
    /\ UNCHANGED << memory, csvExists, progressFile, scanLocals, latest,
                    deferred, faults, crashes, clean >>
    /\ UNCHANGED << anVars, rpcVars, spinVars, overlap >>

\* appendFile fails: saveTransactionsToCSV rethrows (line 498), the scan ends
\* in the caller's catch (line 230 or line 565)
BatchAppendFails ==
    /\ pc = "chunk"
    /\ chunks = << >>
    /\ allBatchTransactions # << >>
    /\ Fault
    /\ pc' = "idle"
    /\ inv' = [inv EXCEPT !.done = TRUE]
    /\ ResetLocals
    /\ UNCHANGED << memory, disk, latest, deferred, unappended, crashes >>
    /\ UNCHANGED << anVars, rpcVars, spinVars, overlap >>

\* line 315
BatchSaveProgress(ok) ==
    /\ pc = "save"
    /\ SaveProgress(ok, lastProcessedBlock, processedBlocks, initialScanCompleted)
    /\ batchStart' = batchStart + BatchSize
    /\ pc' = "batch"
    /\ UNCHANGED << memory, csvExists, csv, caller, toBlock, chunks, allBatchTransactions,
                    jobs, latest, inv, deferred, unappended, crashes >>
    /\ UNCHANGED << anVars, rpcVars, spinVars, overlap >>

\* scanBlockRangeParallel returned to updateTransactions or to a direct caller
ScanReturn ==
    /\ pc = "return"
    /\ caller # "init"
    /\ pc' = "idle"
    /\ inv' = [inv EXCEPT !.done = TRUE]
    /\ ResetLocals
    /\ UNCHANGED << memory, disk, latest, deferred, unappended, faults, crashes, clean >>
    /\ UNCHANGED << anVars, rpcVars, spinVars, overlap >>

(***************************************************************************)
(* updateTransactions and its callers                                      *)
(***************************************************************************)
\* the range updateTransactions scans when the chain head is h (lines 551-559)
UpdateStart == Max(lastProcessedBlock + 1, startBlock)
\* the range end without the cap of line 558
UpdateEndUncapped(h) == h

\* lines 558-559
UpdateEnd(h) == UpdateStart + Min(h - UpdateStart + 1, UpdateCap) - 1

UpdateTransactions(h) ==
    /\ h >= latest
    /\ latest' = h
    /\ IF UpdateStart > h
       THEN UNCHANGED << pc, scanLocals, inv >>
       ELSE EnterScan(UpdateStart, UpdateEnd(h), "update")
    /\ UNCHANGED << memory, disk, deferred, unappended, faults, crashes, clean >>

\* getLatestBlockNumber throws: caught at line 565
UpdateRpcError ==
    /\ pc = "idle"
    /\ Fault
    /\ UNCHANGED << pc, memory, disk, scanLocals, latest, inv, deferred, unappended, crashes >>
    /\ UNCHANGED << anVars, rpcVars, spinVars, overlap >>

\* the cron callback of start() (lines 526-532)
ScheduledTick(h) ==
    /\ pc = "idle"
    /\ initialScanCompleted
    /\ UpdateTransactions(h)
    /\ UNCHANGED << anVars, rpcVars, spinVars, overlap >>

TickSkipped ==
    /\ pc = "idle"
    /\ ~initialScanCompleted
    /\ UNCHANGED << trackerVars, anVars, rpcVars, spinVars >>

\* manualUpdate (lines 617-620)
ManualUpdate(h) ==
    /\ pc = "idle"
    /\ UpdateTransactions(h)
    /\ UNCHANGED << anVars, rpcVars, spinVars, overlap >>

\* a direct call of the public method scanBlockRangeParallel(a, b)
DirectScan(a, b) ==
    /\ pc = "idle"
    /\ a \in 1..latest
    /\ b \in 1..latest
    /\ EnterScan(a, b, "direct")
    /\ clean' = FALSE
    /\ UNCHANGED << memory, disk, latest, deferred, unappended, faults, crashes >>
    /\ UNCHANGED << anVars, rpcVars, spinVars, overlap >>

(***************************************************************************)
(* The environment                                                         *)
(***************************************************************************)
\* the process is killed; everything in memory is lost
Crash ==
    /\ pc # "down"
    /\ crashes < MaxCrashes
    /\ crashes' = crashes + 1
    /\ pc' = "down"
    /\ lastProcessedBlock' = 0
    /\ processedBlocks' = {}
    /\ initialScanCompleted' = FALSE
    /\ ResetLocals
    /\ unappended' = {}
    /\ UNCHANGED << startBlock, disk, latest, inv, deferred, faults, clean >>
    /\ UNCHANGED << anVars, rpcVars, spinVars, overlap >>

\* the progress file is lost while the process is down, the ledger is kept
LoseProgressFile ==
    /\ pc = "down"
    /\ progressFile.exists
    /\ progressFile' = NoFile
    /\ clean' = FALSE
    /\ UNCHANGED << memory, csvExists, csv, pc, scanLocals, latest, inv, deferred, unappended,
                    faults, crashes >>
    /\ UNCHANGED << anVars, rpcVars, spinVars, overlap >>

(***************************************************************************)
(* The analyzer: numbers                                                   *)
(*                                                                         *)
(* Amounts are JavaScript Numbers.  They are modelled as binary floating   *)
(* point values with SignificandBits significant bits (round to nearest,   *)
(* ties to even), counted in units of 1/Sat satoshi.                       *)
(***************************************************************************)
SignificandBits == 15
Sat == 200
Tolerance == 2
DaySeconds == 86400
MaxRows == 3

Abs(x) == IF x < 0 THEN -x ELSE x

RECURSIVE BitLen(_)
BitLen(x) == IF x = 0 THEN 0 ELSE 1 + BitLen(x \div 2)

FRoundPos(x) ==
    LET n == BitLen(x) IN
    IF n <= SignificandBits THEN x
    ELSE LET ulp == 2 ^ (n - SignificandBits)
             q == x \div ulp
             r == x % ulp
         IN IF 2 * r > ulp \/ (2 * r = ulp /\ q % 2 = 1) THEN (q + 1) * ulp ELSE q * ulp

\* the Number nearest to x
FRound(x) == IF x < 0 THEN -FRoundPos(-x) ELSE FRoundPos(x)

\* a + b on Numbers
FAdd(a, b) == FRound(a + b)

\* this.THRESHOLDS (lines 24-29)
ONE_SAT == FRound(Sat)
TEN_SATS == FRound(10 * Sat)
HUNDRED_SATS == FRound(100 * Sat)
TOP_UP_MIN == FRound(100 * Sat)

\* equality without the tolerance
isFloatEqualExact(a, b) == a = b

\* isFloatEqual, lines 712-714
isFloatEqual(a, b) == Abs(FRound(a - b)) < Tolerance

(***************************************************************************)
(* The analyzer: time cutoffs                                              *)
(***************************************************************************)
\* the instant itself instead of the midnight before it
StartOfDayIsNow(t) == t

\* Date.UTC(year, month, date) of an instant, in seconds
StartOfDay(t) == (t \div DaySeconds) * DaySeconds

\* getDayKey: the UTC calendar day of a timestamp
getDayKey(timestamp) == timestamp \div DaySeconds

\* the cutoffs with yesterdayEnd taken at the end of the current day
TimeCutoffsThroughToday(now) ==
    LET yesterday == StartOfDay(now) - DaySeconds IN
    [last7Days |-> yesterday - 6 * DaySeconds,
     last14Days |-> yesterday - 13 * DaySeconds,
     last30Days |-> yesterday - 29 * DaySeconds,
     yesterdayEnd |-> StartOfDay(now) + DaySeconds - 1]

\* constructor, lines 31-56
TimeCutoffs(now) ==
    LET yesterday == StartOfDay(now) - DaySeconds IN
    [last7Days |-> yesterday - 6 * DaySeconds,
     last14Days |-> yesterday - 13 * DaySeconds,
     last30Days |-> yesterday - 29 * DaySeconds,
     yesterdayEnd |-> yesterday + DaySeconds - 1]

(***************************************************************************)
(* The analyzer: statistics containers                                     *)
(***************************************************************************)
Tally == [totalTx |-> 0, totalAmount |-> 0]

createEmptyStats ==
    [satWheel |-> [totalTx |-> 0, totalAmount |-> 0, oneSatTx |-> 0, tenSatsTx |-> 0,
                   oneSatUserTx |-> 0, oneSatAgentTx |-> 0, userAmount |-> 0, agentAmount |-> 0],
     guessTheBlock |-> Tally,
     topUps |-> [totalOps |-> 0, totalAmount |-> 0, transactions |-> << >>],
     uncategorizedIncoming |-> Tally,
     allIncoming |-> Tally,
     gamingIncoming |-> Tally,
     payouts |-> Tally,
     allOutgoing |-> Tally,
     totalTransactions |-> 0]

Bump(t, v) == [totalTx |-> t.totalTx + 1, totalAmount |-> FAdd(t.totalAmount, v)]

\* every transaction taken as the agent's once an agent address is configured
isFromAgentWhenConfigured(tx, agent) == agent # "none"

\* line 589; agent is "none" when process.env.AGENT is not set (line 12)
isFromAgent(tx, agent) == agent # "none" /\ tx.from = agent

\* processIncomingTransaction with the final else branch (lines 657-672) left out
processIncomingTransactionNoElse(tx, stats, agent) ==
    LET s1 == [stats EXCEPT !.allIncoming = Bump(@, tx.value)] IN
    IF isFloatEqual(tx.value, ONE_SAT) \/ isFloatEqual(tx.value, TEN_SATS)
    THEN [s1 EXCEPT !.satWheel.totalTx = @ + 1,
                    !.satWheel.totalAmount = FAdd(@, tx.value),
                    !.gamingIncoming = Bump(@, tx.value)]
    ELSE IF isFloatEqual(tx.value, HUNDRED_SATS)
    THEN [s1 EXCEPT !.guessTheBlock = Bump(@, tx.value),
                    !.gamingIncoming = Bump(@, tx.value)]
    ELSE IF tx.value > TOP_UP_MIN
    THEN [s1 EXCEPT !.topUps.totalOps = @ + 1,
                    !.topUps.totalAmount = FAdd(@, tx.value),
                    !.topUps.transactions = Append(@, tx.transactionHash)]
    ELSE s1

\* processIncomingTransaction, lines 582-673
processIncomingTransaction(tx, stats, agent) ==
    LET s1 == [stats EXCEPT !.allIncoming = Bump(@, tx.value)] IN
    IF isFloatEqual(tx.value, ONE_SAT)
    THEN [s1 EXCEPT !.satWheel.totalTx = @ + 1,
                    !.satWheel.totalAmount = FAdd(@, tx.value),
                    !.satWheel.oneSatTx = @ + 1,
                    !.satWheel.oneSatAgentTx = IF isFromAgent(tx, agent) THEN @ + 1 ELSE @,
                    !.satWheel.agentAmount = IF isFromAgent(tx, agent) THEN FAdd(@, tx.value) ELSE @,
                    !.satWheel.oneSatUserTx = IF isFromAgent(tx, agent) THEN @ ELSE @ + 1,
                    !.satWheel.userAmount = IF isFromAgent(tx, agent) THEN @ ELSE FAdd(@, tx.value),
                    !.gamingIncoming = Bump(@, tx.value)]
    ELSE IF isFloatEqual(tx.value, TEN_SATS)
    THEN [s1 EXCEPT !.satWheel.totalTx = @ + 1,
                    !.satWheel.totalAmount = FAdd(@, tx.value),
                    !.satWheel.tenSatsTx = @ + 1,
                    !.satWheel.userAmount = FAdd(@, tx.value),
                    !.gamingIncoming = Bump(@, tx.value)]
    ELSE IF isFloatEqual(tx.value, HUNDRED_SATS)
    THEN [s1 EXCEPT !.guessTheBlock = Bump(@, tx.value),
                    !.gamingIncoming = Bump(@, tx.value)]
    ELSE IF tx.value > TOP_UP_MIN
    THEN [s1 EXCEPT !.topUps.totalOps = @ + 1,
                    !.topUps.totalAmount = FAdd(@, tx.value),
                    !.topUps.transactions = Append(@, tx.transactionHash)]
    ELSE [s1 EXCEPT !.uncategorizedIncoming = Bump(@, tx.value)]

\* processOutgoingTransaction, lines 686-700
processOutgoingTransaction(tx, stats) ==
    [stats EXCEPT !.payouts = Bump(@, tx.value), !.allOutgoing = Bump(@, tx.value)]

isIncoming(tx) == tx.to = Address
isOutgoing(tx) == tx.from = Address

\* lines 567-578 and 529-540: one container takes one transaction
UpdateContainer(tx, stats, agent) ==
    LET s1 == [stats EXCEPT !.totalTransactions = @ + 1] IN
    IF isIncoming(tx) THEN processIncomingTransaction(tx, s1, agent)
    ELSE IF isOutgoing(tx) THEN processOutgoingTransaction(tx, s1)
    ELSE s1

\* processDailyTransaction, lines 522-541
processDailyTransaction(tx, stats, agent) ==
    IF ~isIncoming(tx) /\ ~isOutgoing(tx) THEN stats
    ELSE IF tx.value <= 0 THEN stats
    ELSE UpdateContainer(tx, stats, agent)

\* a Map of day key -> stats after one more transaction of day k
DayMapUpdate(m, k, tx, agent) ==
    LET cur == IF k \in DOMAIN m THEN m[k] ELSE createEmptyStats IN
    [d \in DOMAIN m \cup {k} |-> IF d = k THEN processDailyTransaction(tx, cur, agent) ELSE m[d]]

Periods == {"allTime", "last30Days", "last14Days", "last7Days"}

\* the all-time window entered only by transactions of the last 30 days
PeriodsOfLast30Days(tx, cut) ==
    (IF tx.timestamp >= cut.last30Days THEN {"allTime", "last30Days"} ELSE {})
    \cup (IF tx.timestamp >= cut.last14Days THEN {"last14Days"} ELSE {})
    \cup (IF tx.timestamp >= cut.last7Days THEN {"last7Days"} ELSE {})

\* lines 559-562: the rolling windows a transaction belongs to
PeriodsOf(tx, cut) ==
    {"allTime"}
    \cup (IF tx.timestamp >= cut.last30Days THEN {"last30Days"} ELSE {})
    \cup (IF tx.timestamp >= cut.last14Days THEN {"last14Days"} ELSE {})
    \cup (IF tx.timestamp >= cut.last7Days THEN {"last7Days"} ELSE {})

\* processTransaction (lines 543-580) with updateDailyStats (lines 502-520):
\* the three aggregates after the call
processTransaction(tx, an, daily, brk, cut, agent) ==
    IF (~isIncoming(tx) /\ ~isOutgoing(tx)) \/ tx.value <= 0
    THEN [analytics |-> an, dailyAnalytics |-> daily, last14DaysBreakdown |-> brk]
    ELSE [analytics |-> [p \in Periods |->
                            IF p \in PeriodsOf(tx, cut)
                            THEN UpdateContainer(tx, an[p], agent) ELSE an[p]],
          dailyAnalytics |-> DayMapUpdate(daily, getDayKey(tx.timestamp), tx, agent),
          last14DaysBreakdown |->
              IF tx.timestamp >= cut.last14Days
              THEN DayMapUpdate(brk, getDayKey(tx.timestamp), tx, agent) ELSE brk]

(***************************************************************************)
(* The analyzer: calculatePeriodAverages (lines 414-500)                   *)
(*                                                                         *)
(* The averages of unique wallets and of the network's transaction counts  *)
(* are computed from data that the containers of this model do not hold    *)
(* (the wallet maps and the TX_COUNT file); the other fields are modelled. *)
(***************************************************************************)
\* return null
NullAverages == [isNull |-> TRUE]

\* the averages last computed, before any call
NoAverages == [dayCount |-> 0, now |-> 0, result |-> NullAverages]

\* Math.round(a / b) for a >= 0 and b > 0
MathRound(a, b) == (2 * a + b) \div (2 * b)

RECURSIVE SumFn(_)
\* the forEach of lines 470-486, for one of the totals
SumFn(f) ==
    IF DOMAIN f = {} THEN 0
    ELSE LET k == CHOOSE x \in DOMAIN f : TRUE IN
         f[k] + SumFn([x \in DOMAIN f \ {k} |-> f[x]])

\* the denominator taken to be the length of the period
ActualDaysOfPeriod(relevantDays, dayCount) == dayCount

\* line 443
ActualDays(relevantDays, dayCount) == Cardinality(relevantDays)

\* calculatePeriodAverages(periodStats, dayCount) called at the instant now on
\* the Map daily; the first argument is not used by the method
calculatePeriodAverages(daily, dayCount, now) ==
    IF dayCount = 0 THEN NullAverages
    ELSE LET yesterdayTimestamp == StartOfDay(now) - DaySeconds
             cutoffTimestamp == yesterdayTimestamp - (dayCount - 1) * DaySeconds
             relevantDays == { d \in DOMAIN daily :
                                 /\ d * DaySeconds >= cutoffTimestamp
                                 /\ d * DaySeconds <= yesterdayTimestamp }
             actualDays == ActualDays(relevantDays, dayCount)
         IN IF relevantDays = {} THEN NullAverages
            ELSE [isNull |-> FALSE,
                  avgTransactions |->
                      MathRound(SumFn([d \in relevantDays |-> daily[d].totalTransactions]),
                                actualDays),
                  avgSatWheelTx |->
                      MathRound(SumFn([d \in relevantDays |-> daily[d].satWheel.totalTx]),
                                actualDays),
                  avgUserTx |->
                      MathRound(SumFn([d \in relevantDays |->
                                          daily[d].satWheel.oneSatUserTx
                                          + daily[d].satWheel.tenSatsTx]),
                                actualDays),
                  avgAgentTx |->
                      MathRound(SumFn([d \in relevantDays |-> daily[d].satWheel.oneSatAgentTx]),
                                actualDays),
                  avgGuessTheBlock |->
                      MathRound(SumFn([d \in relevantDays |-> daily[d].guessTheBlock.totalTx]),
                                actualDays),
                  actualDays |-> actualDays]

(***************************************************************************)
(* The analyzer: the ledger file                                           *)
(***************************************************************************)
Today == 40
Header == [cols |-> 9, b |-> 0, h |-> "transactionHash", from |-> "from", to |-> "to",
           v |-> 0, ts |-> 0, st |-> "status", nan |-> {}]

\* a row of 9 columns whose numeric columns all parse; nan is the set of
\* numeric columns that parseFloat or parseInt turns into NaN
Row(b, h, from, to, v, ts, st) ==
    [cols |-> 9, b |-> b, h |-> h, from |-> from, to |-> to, v |-> v, ts |-> ts, st |-> st,
     nan |-> {}]

\* the lines a ledger is made of: well-formed rows, a row cut after the hash
\* column, and a blank line
Lines ==
    { Row(1, "h1", "agent", "ADDR", Sat + 1, Today * DaySeconds - 1, "success"),
      Row(2, "h2", "u1", "addr", 10 * Sat, (Today - 7) * DaySeconds, "success"),
      Row(3, "h3", "u1", "addr", 100 * Sat + 1, 5 * DaySeconds, "success"),
      Row(4, "h1", "u1", "addr", 200 * Sat, Today * DaySeconds - 1, "success"),
      Row(5, "h2", "u1", "addr", Sat + 101, Today * DaySeconds, "success"),
      Row(6, "h3", "u1", "addr", Sat + 101, (Today + 1) * DaySeconds + 7, "success"),
      Row(7, "h4", "addr", "u1", 5 * Sat, (Today - 2) * DaySeconds + 100, "success"),
      Row(8, "h4", "u1", "addr", Sat, (Today - 1) * DaySeconds, "failed"),
      [cols |-> 2, b |-> 9, h |-> "h1", from |-> "", to |-> "", v |-> 0, ts |-> 0, st |-> "",
       nan |-> {}],
      [cols |-> 0, b |-> 0, h |-> "", from |-> "", to |-> "", v |-> 0, ts |-> 0, st |-> "",
       nan |-> {}] }

RECURSIVE SeqsUpTo(_, _)
SeqsUpTo(S, n) ==
    IF n = 0 THEN { << >> }
    ELSE LET shorter == SeqsUpTo(S, n - 1) IN
         shorter \cup { Append(s, x) : s \in { t \in shorter : Len(t) = n - 1 }, x \in S }

\* the instants at which the analyzer is constructed or the pass runs
Instants == { Today * DaySeconds, Today * DaySeconds + DaySeconds - 1, (Today + 1) * DaySeconds + 30 }

\* lines 752-762: the fields of a data row after parsing
ParseRow(line) ==
    [blockNumber |-> line.b, transactionHash |-> line.h,
     from |-> ToLowerCase(line.from), to |-> ToLowerCase(line.to),
     value |-> FRound(line.v), timestamp |-> line.ts, status |-> line.st,
     nan |-> line.nan]

\* a row accepted only on its first occurrence
RowAcceptedOnce(tx, lineNo, dups, cut) ==
    /\ tx.status = "success"
    /\ tx.nan = {}
    /\ (tx.to = Address \/ tx.from = Address)
    /\ ~(tx.timestamp > cut.yesterdayEnd)
    /\ ~(tx.transactionHash \in DOMAIN dups /\ \E k \in 1..Len(dups[tx.transactionHash]) :
                                                  dups[tx.transactionHash][k] = lineNo)

\* lines 764-777: the row reaches processTransaction; the pass does not
\* consult the duplicates found by checkForDuplicates
RowAccepted(tx, lineNo, dups, cut) ==
    /\ tx.status = "success"
    /\ tx.nan = {}
    /\ (tx.to = Address \/ tx.from = Address)
    /\ ~(tx.timestamp > cut.yesterdayEnd)

\* lines 764-775: the row is relevant but of the incomplete day
RowExcluded(tx, cut) ==
    /\ tx.status = "success"
    /\ tx.nan = {}
    /\ (tx.to = Address \/ tx.from = Address)
    /\ tx.timestamp > cut.yesterdayEnd

\* checkForDuplicates, lines 342-355: every occurrence is recorded, the first included
DupStepAll(line, lineCount, seen, dups) ==
    IF line.cols >= 2
    THEN [txidSet |-> seen \cup {line.h},
          duplicates |-> [t \in DOMAIN dups \cup {line.h} |->
                             IF t = line.h
                             THEN Append(IF t \in DOMAIN dups THEN dups[t] ELSE << >>, lineCount)
                             ELSE dups[t]]]
    ELSE [txidSet |-> seen, duplicates |-> dups]

\* checkForDuplicates, lines 342-355: one data line
DupStep(line, lineCount, seen, dups) ==
    IF line.cols >= 2
    THEN IF line.h \in seen
         THEN [txidSet |-> seen,
               duplicates |-> [t \in DOMAIN dups \cup {line.h} |->
                                  IF t = line.h
                                  THEN Append(IF t \in DOMAIN dups THEN dups[t] ELSE << >>, lineCount)
                                  ELSE dups[t]]]
         ELSE [txidSet |-> seen \cup {line.h}, duplicates |-> dups]
    ELSE [txidSet |-> seen, duplicates |-> dups]

RECURSIVE SumLens(_)
\* line 363: the reduce over duplicates.values()
SumLens(f) ==
    IF DOMAIN f = {} THEN 0
    ELSE LET k == CHOOSE x \in DOMAIN f : TRUE IN
         Len(f[k]) + SumLens([x \in DOMAIN f \ {k} |-> f[x]])

EmptyAnalytics == [p \in Periods |-> createEmptyStats]

AnalyzerOff ==
    /\ ledger = << >>
    /\ apc = "off"
    /\ clock = 0
    /\ agentAddress = "none"
    /\ timeCutoffs = TimeCutoffs(0)
    /\ pos = 0
    /\ txidSet = {}
    /\ duplicates = << >>
    /\ duplicateTransactions = << >>
    /\ duplicateCount = 0
    /\ analytics = EmptyAnalytics
    /\ dailyAnalytics = << >>
    /\ last14DaysBreakdown = << >>
    /\ processedCount = 0
    /\ excludedCount = 0
    /\ errorCount = 0
    /\ averages = NoAverages

TrackerOff ==
    /\ TrackerInit
    /\ startBlock = 1

AnalyzerInit ==
    /\ ledger \in { << Header >> \o s : s \in SeqsUpTo(Lines, MaxRows) }
    /\ apc = "new"
    /\ clock \in Instants
    /\ agentAddress = "none"
    /\ timeCutoffs = TimeCutoffs(0)
    /\ pos = 0
    /\ txidSet = {}
    /\ duplicates = << >>
    /\ duplicateTransactions = << >>
    /\ duplicateCount = 0
    /\ analytics = EmptyAnalytics
    /\ dailyAnalytics = << >>
    /\ last14DaysBreakdown = << >>
    /\ processedCount = 0
    /\ excludedCount = 0
    /\ errorCount = 0
    /\ averages = NoAverages

\* constructor, lines 9-84
Construct(agent) ==
    /\ apc = "new"
    /\ agentAddress' = agent
    /\ timeCutoffs' = TimeCutoffs(clock)
    /\ analytics' = EmptyAnalytics
    /\ dailyAnalytics' = << >>
    /\ last14DaysBreakdown' = << >>
    /\ processedCount' = 0
    /\ duplicateTransactions' = << >>
    /\ duplicateCount' = 0
    /\ apc' = "ready"
    /\ UNCHANGED << ledger, clock, pos, txidSet, duplicates, excludedCount, errorCount, averages >>
    /\ UNCHANGED << trackerVars, rpcVars, spinVars >>

\* wall-clock time passes between the constructor and analyzeStreaming
AdvanceClock(t) ==
    /\ apc = "ready"
    /\ t \in Instants
    /\ t > clock
    /\ clock' = t
    /\ UNCHANGED << ledger, apc, agentAddress, timeCutoffs, pos, txidSet, duplicates,
                    duplicateTransactions, duplicateCount, analytics, dailyAnalytics,
                    last14DaysBreakdown, processedCount, excludedCount, errorCount, averages >>
    /\ UNCHANGED << trackerVars, rpcVars, spinVars >>

\* analyzeStreaming calls checkForDuplicates (line 719), which opens the file
DupStart ==
    /\ apc = "ready"
    /\ apc' = "dup"
    /\ pos' = 0
    /\ txidSet' = {}
    /\ duplicates' = << >>
    /\ UNCHANGED << ledger, clock, agentAddress, timeCutoffs,
                    duplicateTransactions, duplicateCount, analytics, dailyAnalytics,
                    last14DaysBreakdown, processedCount, excludedCount, errorCount, averages >>
    /\ UNCHANGED << trackerVars, rpcVars, spinVars >>

\* rl.on('line') of checkForDuplicates, lines 330-359
DupLine ==
    /\ apc = "dup"
    /\ pos < Len(ledger)
    /\ pos' = pos + 1
    /\ LET lineCount == pos + 1
           line == ledger[lineCount]
           r == IF lineCount = 1 \/ line.cols = 0
                THEN [txidSet |-> txidSet, duplicates |-> duplicates]
                ELSE DupStep(line, lineCount, txidSet, duplicates)
       IN /\ txidSet' = r.txidSet
          /\ duplicates' = r.duplicates
    /\ UNCHANGED << ledger, apc, clock, agentAddress, timeCutoffs,
                    duplicateTransactions, duplicateCount, analytics, dailyAnalytics,
                    last14DaysBreakdown, processedCount, excludedCount, errorCount, averages >>
    /\ UNCHANGED << trackerVars, rpcVars, spinVars >>

\* rl.on('close') of checkForDuplicates, lines 361-388; the analysis pass opens the file
DupClose ==
    /\ apc = "dup"
    /\ pos = Len(ledger)
    /\ duplicateTransactions' = duplicates
    /\ duplicateCount' = SumLens(duplicates)
    /\ apc' = "an"
    /\ pos' = 0
    /\ excludedCount' = 0
    /\ errorCount' = 0
    /\ UNCHANGED << ledger, clock, agentAddress, timeCutoffs, txidSet, duplicates,
                    analytics, dailyAnalytics, last14DaysBreakdown, processedCount, averages >>
    /\ UNCHANGED << trackerVars, rpcVars, spinVars >>

\* rl.on('line') of analyzeStreaming, lines 737-800.  errorCount is touched
\* only by the catch of lines 794-799, which is entered when a statement of
\* the handler throws; a short row or a NaN column makes no statement throw.
AnLine ==
    /\ apc = "an"
    /\ pos < Len(ledger)
    /\ pos' = pos + 1
    /\ LET lineCount == pos + 1
           line == ledger[lineCount]
           tx == ParseRow(line)
       IN IF lineCount = 1 \/ line.cols < 9
          THEN UNCHANGED << analytics, dailyAnalytics, last14DaysBreakdown,
                            processedCount, excludedCount >>
          ELSE IF RowAccepted(tx, lineCount, duplicateTransactions, timeCutoffs)
          THEN LET r == processTransaction(tx, analytics, dailyAnalytics, last14DaysBreakdown,
                                           timeCutoffs, agentAddress)
               IN /\ analytics' = r.analytics
                  /\ dailyAnalytics' = r.dailyAnalytics
                  /\ last14DaysBreakdown' = r.last14DaysBreakdown
                  /\ processedCount' = processedCount + 1
                  /\ UNCHANGED excludedCount
          ELSE /\ excludedCount' = IF RowExcluded(tx, timeCutoffs)
                                   THEN excludedCount + 1 ELSE excludedCount
               /\ UNCHANGED << analytics, dailyAnalytics, last14DaysBreakdown, processedCount >>
    /\ UNCHANGED << ledger, apc, clock, agentAddress, timeCutoffs, txidSet, duplicates,
                    duplicateTransactions, duplicateCount, errorCount, averages >>
    /\ UNCHANGED << trackerVars, rpcVars, spinVars >>

\* rl.on('close') of analyzeStreaming, lines 802-817
AnClose ==
    /\ apc = "an"
    /\ pos = Len(ledger)
    /\ apc' = "done"
    /\ UNCHANGED << ledger, clock, agentAddress, timeCutoffs, pos, txidSet, duplicates,
                    duplicateTransactions, duplicateCount, analytics, dailyAnalytics,
                    last14DaysBreakdown, processedCount, excludedCount, errorCount, averages >>
    /\ UNCHANGED << trackerVars, rpcVars, spinVars >>

AnInit == TrackerOff /\ AnalyzerInit /\ RpcOff /\ SpinsOff

AnNext ==
    \/ \E agent \in {"none", "agent"} : Construct(agent)
    \/ \E t \in Instants : AdvanceClock(t)
    \/ DupStart
    \/ DupLine
    \/ DupClose
    \/ AnLine
    \/ AnClose

AnSpec == AnInit /\ [][AnNext]_vars

(***************************************************************************)
(* The analyzer over ledgers with rows that the pass filters out           *)
(***************************************************************************)
MaxEdgeRows == 2

\* rows of the agent and of a user, a zero-value row, a row between two other
\* addresses, a failed row, a row of 8 columns, rows whose value, timestamp or
\* block number does not parse
EdgeLines ==
    { Row(1, "e1", "agent", "addr", Sat, (Today - 1) * DaySeconds, "success"),
      Row(2, "e2", "agent", "addr", 10 * Sat, (Today - 3) * DaySeconds + 5, "success"),
      Row(3, "e3", "u1", "addr", 0, (Today - 1) * DaySeconds + 9, "success"),
      Row(4, "e4", "u1", "u2", Sat, (Today - 1) * DaySeconds + 9, "success"),
      Row(5, "e5", "u1", "addr", Sat, (Today - 2) * DaySeconds, "failed"),
      [Row(6, "e6", "u1", "addr", Sat, (Today - 1) * DaySeconds, "success") EXCEPT !.cols = 8],
      [Row(7, "e7", "u1", "addr", 0, (Today - 1) * DaySeconds, "success") EXCEPT !.nan = {"value"}],
      [Row(8, "e8", "u1", "addr", Sat, 0, "success") EXCEPT !.nan = {"timestamp"}],
      [Row(0, "e9", "u1", "addr", Sat, (Today - 1) * DaySeconds, "success")
          EXCEPT !.nan = {"blockNumber"}],
      Row(10, "e10", "u1", "addr", Sat, (Today - 1) * DaySeconds + 50, "success") }

EdgeInit ==
    /\ TrackerOff
    /\ RpcOff
    /\ SpinsOff
    /\ ledger \in { << Header >> \o s : s \in SeqsUpTo(EdgeLines, MaxEdgeRows) }
    /\ apc = "new"
    /\ clock \in Instants
    /\ agentAddress = "none"
    /\ timeCutoffs = TimeCutoffs(0)
    /\ pos = 0
    /\ txidSet = {}
    /\ duplicates = << >>
    /\ duplicateTransactions = << >>
    /\ duplicateCount = 0
    /\ analytics = EmptyAnalytics
    /\ dailyAnalytics = << >>
    /\ last14DaysBreakdown = << >>
    /\ processedCount = 0
    /\ excludedCount = 0
    /\ errorCount = 0
    /\ averages = NoAverages

EdgeSpec == EdgeInit /\ [][AnNext]_vars

(***************************************************************************)
(* processTransaction called on a constructed analyzer, one transaction    *)
(* after the other, for as many transactions as it takes the amounts to    *)
(* grow past the precision of a Number.                                    *)
(***************************************************************************)
MaxCalls == 20

\* the transactions handed to processTransaction: a 1-satoshi payment of the
\* agent, one of a user, and a 10-satoshi payment of the agent
CallTxs ==
    { ParseRow(Row(1, "c1", "agent", "addr", Sat + 1, (Today - 1) * DaySeconds, "success")),
      ParseRow(Row(2, "c2", "u1", "addr", Sat, (Today - 1) * DaySeconds + 7, "success")),
      ParseRow(Row(3, "c3", "agent", "addr", 10 * Sat + 1, (Today - 1) * DaySeconds + 9, "success")) }

CallInit ==
    /\ TrackerOff
    /\ RpcOff
    /\ SpinsOff
    /\ ledger = << >>
    /\ apc = "ready"
    /\ clock = Today * DaySeconds
    /\ agentAddress \in {"none", "agent"}
    /\ timeCutoffs = TimeCutoffs(Today * DaySeconds)
    /\ pos = 0
    /\ txidSet = {}
    /\ duplicates = << >>
    /\ duplicateTransactions = << >>
    /\ duplicateCount = 0
    /\ analytics = EmptyAnalytics
    /\ dailyAnalytics = << >>
    /\ last14DaysBreakdown = << >>
    /\ processedCount = 0
    /\ excludedCount = 0
    /\ errorCount = 0
    /\ averages = NoAverages

\* processTransaction(tx), lines 543-580
CallProcessTransaction(tx) ==
    /\ apc = "ready"
    /\ analytics["allTime"].totalTransactions < MaxCalls
    /\ LET r == processTransaction(tx, analytics, dailyAnalytics, last14DaysBreakdown,
                                    timeCutoffs, agentAddress)
       IN /\ analytics' = r.analytics
          /\ dailyAnalytics' = r.dailyAnalytics
          /\ last14DaysBreakdown' = r.last14DaysBreakdown
    /\ UNCHANGED << ledger, apc, clock, agentAddress, timeCutoffs, pos, txidSet, duplicates,
                    duplicateTransactions, duplicateCount, processedCount, excludedCount,
                    errorCount, averages >>
    /\ UNCHANGED << trackerVars, rpcVars, spinVars >>

CallNext == \E tx \in CallTxs : CallProcessTransaction(tx)

CallSpec == CallInit /\ [][CallNext]_vars

(***************************************************************************)
(* The analysis pass followed by the averages of the report                *)
(***************************************************************************)
MaxAvgRows == 3

\* rows of yesterday, of the day 7 and of the day 8 days before today, and
\* of today
AvgLines ==
    { Row(1, "a1", "agent", "addr", Sat, (Today - 1) * DaySeconds + 5, "success"),
      Row(2, "a2", "u1", "addr", 10 * Sat, (Today - 1) * DaySeconds + 9, "success"),
      Row(3, "a3", "u1", "addr", 100 * Sat, (Today - 7) * DaySeconds, "success"),
      Row(4, "a4", "addr", "u1", 5 * Sat, (Today - 8) * DaySeconds + 86399, "success"),
      Row(5, "a5", "u1", "addr", Sat, Today * DaySeconds, "success") }

\* the day counts handed to calculatePeriodAverages: those of lines 973-976
\* that fit the ledger, and the smallest ones
DayCounts == {0, 1, 7, 14}

AvgInit ==
    /\ TrackerOff
    /\ RpcOff
    /\ SpinsOff
    /\ ledger \in { << Header >> \o s : s \in SeqsUpTo(AvgLines, MaxAvgRows) }
    /\ apc = "new"
    /\ clock \in Instants
    /\ agentAddress = "none"
    /\ timeCutoffs = TimeCutoffs(0)
    /\ pos = 0
    /\ txidSet = {}
    /\ duplicates = << >>
    /\ duplicateTransactions = << >>
    /\ duplicateCount = 0
    /\ analytics = EmptyAnalytics
    /\ dailyAnalytics = << >>
    /\ last14DaysBreakdown = << >>
    /\ processedCount = 0
    /\ excludedCount = 0
    /\ errorCount = 0
    /\ averages = NoAverages

\* wall-clock time passes between the pass and the report
ClockAfterPass(t) ==
    /\ apc = "done"
    /\ t \in Instants
    /\ t > clock
    /\ clock' = t
    /\ UNCHANGED << ledger, apc, agentAddress, timeCutoffs, pos, txidSet, duplicates,
                    duplicateTransactions, duplicateCount, analytics, dailyAnalytics,
                    last14DaysBreakdown, processedCount, excludedCount, errorCount, averages >>
    /\ UNCHANGED << trackerVars, rpcVars, spinVars >>

\* one call of calculatePeriodAverages(periodStats, dayCount), lines 414-500
CalculatePeriodAverages(dayCount) ==
    /\ apc = "done"
    /\ averages' = [dayCount |-> dayCount, now |-> clock,
                    result |-> calculatePeriodAverages(dailyAnalytics, dayCount, clock)]
    /\ UNCHANGED << ledger, apc, clock, agentAddress, timeCutoffs, pos, txidSet, duplicates,
                    duplicateTransactions, duplicateCount, analytics, dailyAnalytics,
                    last14DaysBreakdown, processedCount, excludedCount, errorCount >>
    /\ UNCHANGED << trackerVars, rpcVars, spinVars >>

AvgNext ==
    \/ AnNext
    \/ \E t \in Instants : ClockAfterPass(t)
    \/ \E n \in DayCounts : CalculatePeriodAverages(n)

AvgSpec == AvgInit /\ [][AvgNext]_vars

Init == TrackerInit /\ AnalyzerOff /\ RpcOff /\ SpinsOff

Next ==
    \/ \E sb \in 1..MaxStart : Start(sb)
    \/ \E ok \in BOOLEAN : LoadProgress(ok)
    \/ InitialScanRpcError
    \/ \E h \in 1..MaxHead, ok \in BOOLEAN : InitialScanUpToDate(h, ok)
    \/ \E h \in 1..MaxHead : InitialScanBegin(h)
    \/ \E ok \in BOOLEAN : InitialScanFinish(ok)
    \/ ScanLoopExit
    \/ BatchSkip
    \/ BatchPlan
    \/ ChunkStart
    \/ \E b \in 1..MaxHead : BlockReply(b)
    \/ \E b \in 1..MaxHead : BlockReplyNull(b)
    \/ \E b \in 1..MaxHead : BlockReplyError(b)
    \/ \E b \in 1..MaxHead, i \in 1..2, out \in {"ok", "null", "error"} : ReceiptReply(b, i, out)
    \/ ChunkJoin
    \/ BatchAppend
    \/ BatchAppendFails
    \/ \E ok \in BOOLEAN : BatchSaveProgress(ok)
    \/ ScanReturn
    \/ \E h \in 1..MaxHead : ScheduledTick(h)
    \/ UpdateRpcError
    \/ TickSkipped
    \/ \E h \in 1..MaxHead : ManualUpdate(h)
    \/ \E a \in 1..MaxHead, b \in 1..MaxHead : DirectScan(a, b)
    \/ Crash
    \/ LoseProgressFile

Spec == Init /\ [][Next]_vars

(***************************************************************************)
(* Fairness: the tracker's own steps, the restart of a killed process and  *)
(* the cron tick keep happening; failures and crashes are never forced.    *)
(***************************************************************************)
Progress ==
    \/ \E sb \in 1..MaxStart : Start(sb)
    \/ LoadProgress(TRUE)
    \/ \E h \in 1..MaxHead : InitialScanUpToDate(h, TRUE)
    \/ \E h \in 1..MaxHead : InitialScanBegin(h)
    \/ InitialScanFinish(TRUE)
    \/ ScanLoopExit
    \/ BatchSkip
    \/ BatchPlan
    \/ ChunkStart
    \/ \E b \in 1..MaxHead : BlockReply(b)
    \/ \E b \in 1..MaxHead, i \in 1..2 : ReceiptReply(b, i, "ok")
    \/ ChunkJoin
    \/ BatchAppend
    \/ BatchSaveProgress(TRUE)
    \/ ScanReturn
    \/ \E h \in 1..MaxHead : ScheduledTick(h)

FairSpec == Spec /\ WF_vars(Progress)

(***************************************************************************)
(* Properties of the tracker                                               *)
(***************************************************************************)
RelevantHashes(b) ==
    { FilterTransactionsForAddress(ChainTxs(b))[i].hash :
        i \in 1..Len(FilterTransactionsForAddress(ChainTxs(b))) }

CsvHashes == { csv[i].transactionHash : i \in 1..Len(csv) }

\* C1: a scan invoked on a range whose blocks are all in processedBlocks
\* fetches no block and appends no record, in the same process or after a
\* restart that reloaded the progress record.
C1_ExactlyOnceRescan ==
    inv.allDone => (inv.fetched = {} /\ inv.appended = 0)

C1_Witness ==
    /\ inv.allDone
    /\ inv.done
    /\ inv.to - inv.from + 1 > BatchSize
    /\ crashes > 0
    /\ progressFile.exists

\* C2: every block that the persisted progress record lists as processed has
\* all its transactions touching the tracked address in the ledger.
C2_NoSilentLoss ==
    progressFile.exists =>
        \A b \in progressFile.processedBlocks : RelevantHashes(b) \subseteq CsvHashes

\* C3: at the join of a chunk, a block whose fetch failed is not added to
\* processedBlocks and does not advance lastProcessedBlock, while the other
\* blocks of the chunk are marked.
C3_FailedBlockLeftUnprocessed ==
    [][ (pc = "await" /\ pc' = "chunk") =>
          /\ \A b \in DOMAIN jobs : jobs[b].failed => b \notin processedBlocks'
          /\ \A b \in DOMAIN jobs : ~jobs[b].failed => b \in processedBlocks'
          /\ lastProcessedBlock' =
                Max(lastProcessedBlock, SetMax({ b \in DOMAIN jobs : ~jobs[b].failed })) ]_vars

\* C4: a block whose fetch failed is fetched again by a later scan.
C4_DeferredRetried ==
    \A n \in 1..MaxHead :
        (n \in deferred) ~> (n \in DOMAIN jobs /\ jobs[n].st = "block")

\* C5: with no failure other than kills of the process, once the initial scan
\* has completed the ledger holds exactly the hashes of the scanned range,
\* each of them once.
C5_IdempotentResume ==
    (clean /\ pc = "idle" /\ initialScanCompleted) =>
        /\ CsvHashes = UNION { RelevantHashes(b) : b \in startBlock..lastProcessedBlock }
        /\ \A i, j \in 1..Len(csv) :
              i # j => csv[i].transactionHash # csv[j].transactionHash

AllStats ==
    { analytics[p] : p \in Periods }
    \cup { dailyAnalytics[d] : d \in DOMAIN dailyAnalytics }
    \cup { last14DaysBreakdown[d] : d \in DOMAIN last14DaysBreakdown }

CategorizedTx(s) ==
    s.satWheel.totalTx + s.guessTheBlock.totalTx + s.topUps.totalOps
    + s.uncategorizedIncoming.totalTx

\* line 1050: the categorized total as logPeriodAnalysis adds it up
CategorizedAmount(s) ==
    FAdd(FAdd(FAdd(s.satWheel.totalAmount, s.guessTheBlock.totalAmount),
              s.topUps.totalAmount), s.uncategorizedIncoming.totalAmount)

\* C7 as stated: in every window and every daily bucket the incoming count and
\* the incoming amount equal the sums over the four categories.
C7_CategorizationComplete ==
    \A s \in AllStats :
        /\ s.allIncoming.totalTx = CategorizedTx(s)
        /\ s.allIncoming.totalAmount = CategorizedAmount(s)

\* one incoming transaction of value v took s to t: allIncoming and exactly
\* one category count it once and add v to their amount
CountedOnce(s, t, v) ==
    /\ t.allIncoming = Bump(s.allIncoming, v)
    /\ \/ /\ t.satWheel.totalTx = s.satWheel.totalTx + 1
          /\ t.satWheel.totalAmount = FAdd(s.satWheel.totalAmount, v)
          /\ t.guessTheBlock = s.guessTheBlock
          /\ t.topUps = s.topUps
          /\ t.uncategorizedIncoming = s.uncategorizedIncoming
       \/ /\ t.guessTheBlock = Bump(s.guessTheBlock, v)
          /\ t.satWheel = s.satWheel
          /\ t.topUps = s.topUps
          /\ t.uncategorizedIncoming = s.uncategorizedIncoming
       \/ /\ t.topUps.totalOps = s.topUps.totalOps + 1
          /\ t.topUps.totalAmount = FAdd(s.topUps.totalAmount, v)
          /\ t.satWheel = s.satWheel
          /\ t.guessTheBlock = s.guessTheBlock
          /\ t.uncategorizedIncoming = s.uncategorizedIncoming
       \/ /\ t.uncategorizedIncoming = Bump(s.uncategorizedIncoming, v)
          /\ t.satWheel = s.satWheel
          /\ t.guessTheBlock = s.guessTheBlock
          /\ t.topUps = s.topUps

IncomingFrozen(s, t) ==
    /\ t.allIncoming = s.allIncoming
    /\ t.satWheel = s.satWheel
    /\ t.guessTheBlock = s.guessTheBlock
    /\ t.topUps = s.topUps
    /\ t.uncategorizedIncoming = s.uncategorizedIncoming

StatsAt(m, d) == IF d \in DOMAIN m THEN m[d] ELSE createEmptyStats

\* C7 as amended: the counts agree exactly, and every step of the pass leaves
\* the incoming part of a container alone or counts the current row's value
\* once in allIncoming and once in exactly one category.
C7_CountsCompleteAmountsOnce ==
    /\ [](\A s \in AllStats : s.allIncoming.totalTx = CategorizedTx(s))
    /\ [][ \A p \in Periods :
             \/ IncomingFrozen(analytics[p], analytics'[p])
             \/ /\ apc = "an" /\ pos < Len(ledger)
                /\ CountedOnce(analytics[p], analytics'[p], FRound(ledger[pos + 1].v)) ]_vars
    /\ [][ \A d \in DOMAIN dailyAnalytics' :
             \/ IncomingFrozen(StatsAt(dailyAnalytics, d), dailyAnalytics'[d])
             \/ /\ apc = "an" /\ pos < Len(ledger)
                /\ CountedOnce(StatsAt(dailyAnalytics, d), dailyAnalytics'[d],
                               FRound(ledger[pos + 1].v)) ]_vars

C7_Witness ==
    /\ apc = "done"
    /\ analytics["allTime"].satWheel.totalTx > 0
    /\ analytics["allTime"].topUps.totalOps > 0
    /\ analytics["allTime"].uncategorizedIncoming.totalTx > 0
    /\ analytics["allTime"].allIncoming.totalAmount # CategorizedAmount(analytics["allTime"])

\* C8: a row whose timestamp lies in the UTC day that is current while the
\* pass runs changes no rolling window and no daily bucket.
C8_TodayExclusion ==
    [][ (/\ apc = "an"
         /\ pos >= 1
         /\ pos < Len(ledger)
         /\ ledger[pos + 1].cols >= 9
         /\ getDayKey(ledger[pos + 1].ts) = getDayKey(clock))
        => UNCHANGED << analytics, dailyAnalytics, last14DaysBreakdown >> ]_vars

\* a relevant, successful, positive row of the current day has been passed over
C8_Witness ==
    /\ apc = "done"
    /\ processedCount > 0
    /\ getDayKey(clock) > getDayKey(timeCutoffs.yesterdayEnd) + 1
    /\ \E i \in 2..Len(ledger) :
          /\ ledger[i].cols >= 9
          /\ ledger[i].st = "success"
          /\ ToLowerCase(ledger[i].to) = Address
          /\ ledger[i].v > 0
          /\ getDayKey(ledger[i].ts) = getDayKey(clock)

DataRows == { i \in 2..Len(ledger) : ledger[i].cols >= 2 }
RowsWithHash(h) == { i \in DataRows : ledger[i].h = h }
LedgerHashes == { ledger[i].h : i \in DataRows }

\* C9: after checkForDuplicates, duplicateTransactions has one entry per hash
\* found on more than one data row, and duplicateCount is the number of data
\* rows with a hash minus the number of distinct hashes.
C9_DuplicateCounts ==
    apc \in {"an", "done"} =>
        /\ DOMAIN duplicateTransactions = { h \in LedgerHashes : Cardinality(RowsWithHash(h)) > 1 }
        /\ duplicateCount = Cardinality(DataRows) - Cardinality(LedgerHashes)

C9_Witness ==
    /\ apc = "done"
    /\ duplicateCount = 2
    /\ Cardinality(DOMAIN duplicateTransactions) = 1
    /\ \E i \in 2..Len(ledger) : ledger[i].cols = 2

\* the rows that pass the status, relevance, value and today filters
PassingRows ==
    { i \in 2..Len(ledger) :
        /\ ledger[i].cols >= 9
        /\ ledger[i].nan = {}
        /\ ledger[i].st = "success"
        /\ (ToLowerCase(ledger[i].to) = Address \/ ToLowerCase(ledger[i].from) = Address)
        /\ ledger[i].v > 0
        /\ ledger[i].ts <= timeCutoffs.yesterdayEnd }

\* the rows that pass the status, relevance and today filters of the pass,
\* whatever their value: the rows counted in processedCount (line 776)
CountedRows ==
    { i \in 2..Len(ledger) :
        /\ ledger[i].cols >= 9
        /\ ledger[i].nan = {}
        /\ ledger[i].st = "success"
        /\ (ToLowerCase(ledger[i].to) = Address \/ ToLowerCase(ledger[i].from) = Address)
        /\ ledger[i].ts <= timeCutoffs.yesterdayEnd }

\* C10: every row that passes the filters is counted, whether or not its hash
\* occurred before: the all-time counters equal the number of passing rows.
C10_DuplicatesProcessed ==
    apc = "done" =>
        /\ analytics["allTime"].totalTransactions = Cardinality(PassingRows)
        /\ analytics["allTime"].allIncoming.totalTx
              = Cardinality({ i \in PassingRows : ToLowerCase(ledger[i].to) = Address })
        /\ analytics["allTime"].payouts.totalTx
              = Cardinality({ i \in PassingRows : ToLowerCase(ledger[i].to) # Address })
        /\ processedCount = Cardinality(CountedRows)

C10_Witness ==
    /\ apc = "done"
    /\ \E i, j \in PassingRows : i # j /\ ledger[i].h = ledger[j].h
    /\ analytics["allTime"].totalTransactions >= 2

(***************************************************************************)
(* Incremental updates far behind the chain head.                          *)
(*                                                                         *)
(* The tracker is idle after its start-up, either with the initial scan    *)
(* completed up to block ScannedTo or with the initial scan given up on an *)
(* RPC error; the chain head then moves up to FarHead, more than the       *)
(* update cap ahead, and updates run without further failures.             *)
(***************************************************************************)
ScannedTo == 4
FarHead == 230

UpdHeads == { ScannedTo, ScannedTo + 1, ScannedTo + UpdateCap, ScannedTo + UpdateCap + 1, FarHead }

RECURSIVE ScannedRows(_, _)
\* the ledger rows of a fault-free scan of blocks lo..hi
ScannedRows(lo, hi) ==
    IF lo > hi THEN << >>
    ELSE LET rel == FilterTransactionsForAddress(ChainTxs(lo)) IN
         [i \in 1..Len(rel) |-> TxData(rel[i], lo, rel[i].status)] \o ScannedRows(lo + 1, hi)

UpdInit ==
    /\ startBlock \in 1..MaxStart
    /\ pc = "idle"
    /\ caller = "none"
    /\ toBlock = 0
    /\ batchStart = 0
    /\ chunks = << >>
    /\ allBatchTransactions = << >>
    /\ jobs = << >>
    /\ inv = NoInv
    /\ deferred = {}
    /\ unappended = {}
    /\ crashes = 0
    /\ overlap = NoOverlap
    /\ csvExists = TRUE
    /\ \/ /\ initialScanCompleted = TRUE
          /\ lastProcessedBlock = ScannedTo
          /\ processedBlocks = startBlock..ScannedTo
          /\ csv = ScannedRows(startBlock, ScannedTo)
          /\ progressFile = ProgressRecord(ScannedTo, startBlock..ScannedTo, TRUE, startBlock)
          /\ latest = ScannedTo
          /\ faults = 0
          /\ clean = TRUE
       \/ /\ initialScanCompleted = FALSE
          /\ lastProcessedBlock = Max(0, startBlock - 1)
          /\ processedBlocks = {}
          /\ csv = << >>
          /\ progressFile = NoFile
          /\ latest = 1
          /\ faults = 1
          /\ clean = FALSE
    /\ AnalyzerOff
    /\ RpcOff
    /\ SpinsOff

UpdNext ==
    \/ \E h \in UpdHeads : ScheduledTick(h)
    \/ \E h \in UpdHeads : ManualUpdate(h)
    \/ TickSkipped
    \/ UpdateRpcError
    \/ ScanLoopExit
    \/ BatchPlan
    \/ ChunkStart
    \/ \E b \in 1..FarHead : BlockReply(b)
    \/ \E b \in 1..FarHead, i \in 1..2 : ReceiptReply(b, i, "ok")
    \/ ChunkJoin
    \/ BatchAppend
    \/ BatchSaveProgress(TRUE)
    \/ ScanReturn

UpdSpec == UpdInit /\ [][UpdNext]_vars

\* C20: an updateTransactions invocation that scans hands over the range
\* starting at max(lastProcessedBlock + 1, startBlock), of at most 100 blocks
\* and ending at or before the latest block, and fetches only blocks of that
\* range; an invocation whose start is above the latest block leaves the
\* tracker's memory, files and scan state as they are.
C20_UpdateRangeCap ==
    /\ [][ (pc = "idle" /\ pc' # "idle") =>
             /\ caller' = "update"
             /\ inv'.from = Max(lastProcessedBlock + 1, startBlock)
             /\ batchStart' = inv'.from
             /\ toBlock' = inv'.to
             /\ inv'.from <= inv'.to
             /\ inv'.to - inv'.from + 1 <= 100
             /\ inv'.to <= latest' ]_vars
    /\ [][ (pc = "idle" /\ Max(lastProcessedBlock + 1, startBlock) > latest') =>
             UNCHANGED << pc, memory, disk, scanLocals >> ]_vars
    /\ [](caller = "update" =>
             /\ inv.fetched \subseteq inv.from..inv.to
             /\ Cardinality(inv.fetched) <= 100)

C20_Witness ==
    /\ pc = "idle"
    /\ inv.done
    /\ inv.to - inv.from + 1 = 100
    /\ Cardinality(inv.fetched) = 100
    /\ inv.to < latest
    /\ lastProcessedBlock = inv.to

(***************************************************************************)
(* The RPC client on its own: calls of makeRpcCall, one after the other    *)
(***************************************************************************)
RpcSpecInit == TrackerOff /\ AnalyzerOff /\ RpcInit /\ SpinsOff

RpcNext ==
    \/ \E m \in Methods : MakeRpcCall(m)
    \/ \E r \in {"0x4", "block", "receipt", "null"} : RpcReplyResult(r)
    \/ \E f \in Failures : RpcReplyFailure(f)
    \/ RpcDelayOver

RpcSpec == RpcSpecInit /\ [][RpcNext]_vars

\* C11: a call makes at most 3 attempts; every attempt but the last one
\* failed; failed attempt k < 3 is followed by a delay of min(100*k, 500) ms
\* and one more attempt; a call returns the result of its successful attempt
\* right after it, and throws the error of its 3rd failed attempt.
C11_RetryBound ==
    /\ attempts <= 3
    /\ \A i \in 1..Len(attemptLog) : i < Len(attemptLog) => attemptLog[i].kind # "ok"
    /\ delays = [k \in 1..Len(delays) |-> IF 100 * k <= 500 THEN 100 * k ELSE 500]
    /\ rpcPc = "post" => (attempts = Len(attemptLog) + 1 /\ Len(delays) = attempts - 1)
    /\ rpcPc = "delay" =>
          /\ attempts = Len(attemptLog)
          /\ attempts < 3
          /\ attemptLog[attempts].kind # "ok"
          /\ Len(delays) = attempts
    /\ rpcPc = "returned" =>
          /\ attempts = Len(attemptLog)
          /\ attemptLog[attempts].kind = "ok"
          /\ rpcOutcome = attemptLog[attempts].result
          /\ Len(delays) = attempts - 1
    /\ rpcPc = "thrown" =>
          /\ attempts = 3
          /\ Len(attemptLog) = 3
          /\ attemptLog[3].kind # "ok"
          /\ rpcOutcome = attemptLog[3].kind
          /\ delays = << 100, 200 >>

C11_Witness ==
    /\ rpcPc = "thrown"
    /\ rpcMethod = "eth_getBlockByNumber"
    /\ attempts = 3
    /\ delays = << 100, 200 >>
    /\ rpcOutcome = "timeout"

\* C15: an attempt answered with result null is the last attempt of its
\* call, and the call has returned null without raising an error.
C15_NullNotRetried ==
    \A i \in 1..Len(attemptLog) :
        (attemptLog[i].kind = "ok" /\ attemptLog[i].result = "null") =>
            /\ i = Len(attemptLog)
            /\ attempts = i
            /\ rpcPc = "returned"
            /\ rpcOutcome = "null"

C15_Witness ==
    /\ rpcPc = "returned"
    /\ rpcMethod \in {"eth_getBlockByNumber", "eth_getTransactionReceipt"}
    /\ attempts = 1
    /\ attemptLog = << [kind |-> "ok", result |-> "null"] >>
    /\ rpcOutcome = "null"

(***************************************************************************)
(* Properties of the ledger writer and of the scan loop                    *)
(***************************************************************************)
IsPrefix(s, t) == Len(s) <= Len(t) /\ SubSeq(t, 1, Len(s)) = s

\* C12: every step of the tracker leaves the earlier ledger content as a
\* prefix of the later one, and ensureCsvFile leaves an existing ledger as it
\* is (the header is written only when the file does not exist).
C12_LedgerAppendOnly ==
    [][ /\ IsPrefix(csv, csv')
        /\ (csvExists => csvExists')
        /\ (pc = "down" /\ pc' = "load" /\ csvExists => csv' = csv) ]_vars

C12_Witness ==
    /\ crashes > 0
    /\ pc = "load"
    /\ Len(csv) >= 2

\* C13: while the chunks of a batch are being fetched, processedBlocks holds
\* no block fetched for that batch, and processedBlocks and lastProcessedBlock
\* change during a scan only at the join of the last chunk of the batch.
C13_ProgressOnlyAtBatchBoundary ==
    /\ [](pc = "await" =>
            \A b \in inv.fetched : b \in batchStart..BatchEnd => b \notin processedBlocks)
    /\ [][ ( /\ pc \in {"batch", "chunk", "await", "save"}
             /\ pc' # "down"
             /\ << processedBlocks, lastProcessedBlock >>' # << processedBlocks, lastProcessedBlock >> )
           => (pc = "await" /\ chunks' = << >>) ]_vars

\* C14: whenever a progress record is written, the rows collected for every
\* block it lists as processed have already been appended to the ledger.
C14_AppendBeforeProgressCommit ==
    [][ (progressFile' # progressFile /\ progressFile'.exists)
          => progressFile'.processedBlocks \cap unappended' = {} ]_vars

\* the RPC requests in flight: one getBlock per job awaiting its block, one
\* getTransactionReceipt per pending receipt
InFlight ==
    { << b, 0 >> : b \in { x \in DOMAIN jobs : jobs[x].st = "block" } }
    \cup UNION { { << b, i >> : i \in { k \in 1..Len(jobs[b].res) : jobs[b].res[k] = "pending" } } :
                 b \in { x \in DOMAIN jobs : jobs[x].st = "rcpt" } }

\* C18: at every moment of a scan at most maxConcurrentRequests RPC requests
\* (block fetches and receipt fetches together) are in flight.
C18_BoundedFanOut ==
    Cardinality(InFlight) <= MaxConcurrentRequests

(***************************************************************************)
(* Properties of loadProgress                                              *)
(***************************************************************************)
\* the block numbers >= startBlock found in the data rows of the ledger
LedgerBlocks == { b \in { csv[i].blockNumber : i \in 1..Len(csv) } : b >= startBlock }

IncomingRows == { i \in PassingRows : ToLowerCase(ledger[i].to) = Address }

\* the exact-match test of a value against a number of satoshis: the code's
\* comparison accepts a difference below 1e-10 BTC (0.01 satoshi)
Matches(v, sats) == Abs(v - sats * Sat) < Tolerance

MatchesAny(v) == Matches(v, 1) \/ Matches(v, 10) \/ Matches(v, 100)

\* C16: an incoming value matching 1 or 10 satoshis is counted in satWheel,
\* one matching 100 satoshis in guessTheBlock even when it is above 100, any
\* other value above 100 satoshis in topUps with one detail row, and every
\* other value in uncategorizedIncoming.
C16_CategoryMapping ==
    apc = "done" =>
        LET s == analytics["allTime"] IN
        /\ s.satWheel.totalTx
              = Cardinality({ i \in IncomingRows : Matches(ledger[i].v, 1) \/ Matches(ledger[i].v, 10) })
        /\ s.guessTheBlock.totalTx
              = Cardinality({ i \in IncomingRows : Matches(ledger[i].v, 100) })
        /\ s.topUps.totalOps
              = Cardinality({ i \in IncomingRows : ~MatchesAny(ledger[i].v) /\ ledger[i].v > 100 * Sat })
        /\ Len(s.topUps.transactions) = s.topUps.totalOps
        /\ s.uncategorizedIncoming.totalTx
              = Cardinality({ i \in IncomingRows : ~MatchesAny(ledger[i].v) /\ ledger[i].v < 100 * Sat })

C16_Witness ==
    /\ apc = "done"
    /\ analytics["allTime"].guessTheBlock.totalTx = 1
    /\ \E i \in IncomingRows : ledger[i].v > 100 * Sat /\ Matches(ledger[i].v, 100)
    /\ analytics["allTime"].topUps.totalOps = 1
    /\ analytics["allTime"].satWheel.totalTx + analytics["allTime"].uncategorizedIncoming.totalTx = 1

WindowDays == [last7Days |-> 7, last14Days |-> 14, last30Days |-> 30]

C21_FailedUpdateContained ==
    /\ [][ (pc = "idle" /\ pc' = "idle" /\ faults' > faults) =>
             /\ UNCHANGED << memory, disk >>
             /\ UpdateStart' = UpdateStart ]_vars
    /\ [][ (caller = "update" /\ pc # "idle" /\ pc' = "idle" /\ faults' > faults) =>
             /\ csv' = csv
             /\ inv.appended = 0
             /\ inv.fetched \cap processedBlocks' = {}
             /\ UpdateStart' = inv.from ]_vars

(***************************************************************************)
(* Properties of the analyzer: filtered and malformed rows                 *)
(***************************************************************************)
\* the pass is about to read a parseable row of 9 columns
AtParsedRow ==
    /\ apc = "an"
    /\ pos >= 1
    /\ pos < Len(ledger)
    /\ ledger[pos + 1].cols >= 9
    /\ ledger[pos + 1].nan = {}

\* the row the pass is about to read is one the filters reject
FilteredRow ==
    \/ ledger[pos + 1].st # "success"
    \/ ledger[pos + 1].v <= 0
    \/ /\ ToLowerCase(ledger[pos + 1].to) # Address
       /\ ToLowerCase(ledger[pos + 1].from) # Address

\* C22: a row with a status other than success, or a value <= 0, or with
\* neither from nor to equal to the tracked address, changes no rolling
\* window, no daily bucket and not processedCount.
C22_FilterFrame ==
    [][ (AtParsedRow /\ FilteredRow) =>
          UNCHANGED << analytics, dailyAnalytics, last14DaysBreakdown, processedCount >> ]_vars

(***************************************************************************)
(* Properties of the analyzer: the agent split of satWheel                 *)
(***************************************************************************)
WheelCounts(w) ==
    /\ w.oneSatTx = w.oneSatUserTx + w.oneSatAgentTx
    /\ w.totalTx = w.oneSatTx + w.tenSatsTx

\* satWheel went from s to t by one call of processTransaction(tx): a
\* 1-satoshi payment counts as the agent's exactly when an agent address is
\* configured and tx.from equals it, a 10-satoshi payment always as a user's
WheelStep(s, t, tx, agent) ==
    IF tx.to = Address /\ Matches(tx.value, 1)
    THEN /\ t.totalTx = s.totalTx + 1
         /\ t.totalAmount = FAdd(s.totalAmount, tx.value)
         /\ t.oneSatTx = s.oneSatTx + 1
         /\ t.tenSatsTx = s.tenSatsTx
         /\ IF agent # "none" /\ tx.from = agent
            THEN /\ t.oneSatAgentTx = s.oneSatAgentTx + 1
                 /\ t.agentAmount = FAdd(s.agentAmount, tx.value)
                 /\ t.oneSatUserTx = s.oneSatUserTx
                 /\ t.userAmount = s.userAmount
            ELSE /\ t.oneSatUserTx = s.oneSatUserTx + 1
                 /\ t.userAmount = FAdd(s.userAmount, tx.value)
                 /\ t.oneSatAgentTx = s.oneSatAgentTx
                 /\ t.agentAmount = s.agentAmount
    ELSE IF tx.to = Address /\ Matches(tx.value, 10)
    THEN /\ t.totalTx = s.totalTx + 1
         /\ t.totalAmount = FAdd(s.totalAmount, tx.value)
         /\ t.tenSatsTx = s.tenSatsTx + 1
         /\ t.userAmount = FAdd(s.userAmount, tx.value)
         /\ t.oneSatTx = s.oneSatTx
         /\ t.oneSatUserTx = s.oneSatUserTx
         /\ t.oneSatAgentTx = s.oneSatAgentTx
         /\ t.agentAmount = s.agentAmount
    ELSE t = s

\* every container's satWheel is left alone or takes one of the transactions
WheelSteps ==
    /\ \A p \in Periods :
          \/ analytics'[p].satWheel = analytics[p].satWheel
          \/ \E tx \in CallTxs :
                WheelStep(analytics[p].satWheel, analytics'[p].satWheel, tx, agentAddress)
    /\ \A d \in DOMAIN dailyAnalytics' :
          \/ dailyAnalytics'[d].satWheel = StatsAt(dailyAnalytics, d).satWheel
          \/ \E tx \in CallTxs :
                WheelStep(StatsAt(dailyAnalytics, d).satWheel, dailyAnalytics'[d].satWheel,
                          tx, agentAddress)
    /\ \A d \in DOMAIN last14DaysBreakdown' :
          \/ last14DaysBreakdown'[d].satWheel = StatsAt(last14DaysBreakdown, d).satWheel
          \/ \E tx \in CallTxs :
                WheelStep(StatsAt(last14DaysBreakdown, d).satWheel,
                          last14DaysBreakdown'[d].satWheel, tx, agentAddress)

\* C23 as stated: in every container oneSatTx = oneSatUserTx + oneSatAgentTx,
\* totalTx = oneSatTx + tenSatsTx and totalAmount = userAmount + agentAmount;
\* a 1-satoshi payment counts as the agent's exactly when an agent address is
\* configured and from equals it; a 10-satoshi payment never changes
\* oneSatAgentTx or agentAmount.
C23_AgentSplit ==
    /\ [](\A s \in AllStats :
            /\ WheelCounts(s.satWheel)
            /\ s.satWheel.totalAmount = FAdd(s.satWheel.userAmount, s.satWheel.agentAmount))
    /\ [][WheelSteps]_vars

\* C23 as amended: the two count identities hold in every container, and
\* every call adds the value of a satWheel payment once to totalAmount and
\* once to exactly one of userAmount and agentAmount, chosen as stated.
C23_AgentSplitCounts ==
    /\ [](\A s \in AllStats : WheelCounts(s.satWheel))
    /\ [][WheelSteps]_vars

C23_Witness ==
    /\ agentAddress = "agent"
    /\ analytics["allTime"].satWheel.oneSatAgentTx > 0
    /\ analytics["allTime"].satWheel.oneSatUserTx > 0
    /\ analytics["allTime"].satWheel.tenSatsTx > 0
    /\ analytics["allTime"].satWheel.totalAmount
          # FAdd(analytics["allTime"].satWheel.userAmount, analytics["allTime"].satWheel.agentAmount)

(***************************************************************************)
(* Properties of the analyzer: the duplicate report                        *)
(***************************************************************************)
\* C24: after checkForDuplicates, every hash found on more than one data row
\* has a duplicate record, and the record lists the line numbers of all the
\* rows carrying the hash, the first one included.
C24_DuplicateLineNumbers ==
    apc \in {"an", "done"} =>
        \A h \in LedgerHashes :
            Cardinality(RowsWithHash(h)) > 1 =>
                /\ h \in DOMAIN duplicateTransactions
                /\ SeqSet(duplicateTransactions[h]) = RowsWithHash(h)

\* the pass is about to read a malformed row: fewer than 9 columns, or a
\* value, timestamp or block number that does not parse
AtMalformedRow ==
    /\ apc = "an"
    /\ pos >= 1
    /\ pos < Len(ledger)
    /\ \/ ledger[pos + 1].cols \in 1..8
       \/ ledger[pos + 1].cols >= 9 /\ ledger[pos + 1].nan # {}

\* C25: a malformed row changes no aggregate, increments the error counter
\* of the pass and does not stop the pass: the pass goes on to the next line,
\* and at its end every well-formed row that passes the filters was counted.
C25_MalformedSkippedAndCounted ==
    /\ [][ AtMalformedRow =>
             /\ UNCHANGED << analytics, dailyAnalytics, last14DaysBreakdown, processedCount >>
             /\ errorCount' = errorCount + 1
             /\ apc' = "an"
             /\ pos' = pos + 1 ]_vars
    /\ [](apc = "done" => processedCount = Cardinality(CountedRows))

(***************************************************************************)
(* Properties of the analyzer: the rolling averages                        *)
(***************************************************************************)
\* the daily buckets of the n days that end at the day before the UTC date
\* of the instant now
BucketsOfPeriod(n, now) ==
    { d \in DOMAIN dailyAnalytics : d >= now \div 86400 - n /\ d <= now \div 86400 - 1 }

\* r is the quotient total / days rounded to the nearest integer
IsRoundedQuotient(r, total, days) ==
    /\ 2 * days * r - days <= 2 * total
    /\ 2 * total <= 2 * days * r + days

\* C26: the averages computed for day count N are null when N is 0 or no
\* daily bucket lies in the N days ending at yesterday; otherwise they are the
\* sums over exactly those buckets divided by the number of those buckets,
\* and the bucket of today is not among them.
C26_PeriodAverages ==
    LET n == averages.dayCount
        W == BucketsOfPeriod(n, averages.now)
        r == averages.result
    IN /\ r.isNull <=> (n = 0 \/ W = {})
       /\ ~r.isNull =>
            /\ averages.now \div 86400 \notin W
            /\ r.actualDays = Cardinality(W)
            /\ IsRoundedQuotient(r.avgTransactions,
                                 SumFn([d \in W |-> dailyAnalytics[d].totalTransactions]),
                                 Cardinality(W))
            /\ IsRoundedQuotient(r.avgSatWheelTx,
                                 SumFn([d \in W |-> dailyAnalytics[d].satWheel.totalTx]),
                                 Cardinality(W))
            /\ IsRoundedQuotient(r.avgGuessTheBlock,
                                 SumFn([d \in W |-> dailyAnalytics[d].guessTheBlock.totalTx]),
                                 Cardinality(W))

\* averages over 7 days taken from the two buckets present, whose total of
\* 3 transactions gives 2 per day
C26_Witness ==
    /\ averages.dayCount = 7
    /\ ~averages.result.isNull
    /\ averages.result.actualDays = 2
    /\ SumFn([d \in BucketsOfPeriod(7, averages.now) |-> dailyAnalytics[d].totalTransactions]) = 3
    /\ averages.result.avgTransactions = 2

(***************************************************************************)
(* Properties of the analyzer: daily buckets and rolling windows           *)
(***************************************************************************)
\* C27: the daily buckets add up to the all-time window in totalTransactions,
\* allIncoming.totalTx and payouts.totalTx, and totalTransactions does not
\* decrease from the 7-day to the 14-day, the 30-day and the all-time window.
C27_DailyPartition ==
    /\ SumFn([d \in DOMAIN dailyAnalytics |-> dailyAnalytics[d].totalTransactions])
          = analytics["allTime"].totalTransactions
    /\ SumFn([d \in DOMAIN dailyAnalytics |-> dailyAnalytics[d].allIncoming.totalTx])
          = analytics["allTime"].allIncoming.totalTx
    /\ SumFn([d \in DOMAIN dailyAnalytics |-> dailyAnalytics[d].payouts.totalTx])
          = analytics["allTime"].payouts.totalTx
    /\ analytics["last7Days"].totalTransactions <= analytics["last14Days"].totalTransactions
    /\ analytics["last14Days"].totalTransactions <= analytics["last30Days"].totalTransactions
    /\ analytics["last30Days"].totalTransactions <= analytics["allTime"].totalTransactions

C27_Witness ==
    /\ apc = "done"
    /\ Cardinality(DOMAIN dailyAnalytics) = 3
    /\ analytics["allTime"].payouts.totalTx = 1
    /\ analytics["allTime"].allIncoming.totalTx = 2
    /\ analytics["last7Days"].totalTransactions < analytics["last14Days"].totalTransactions
    /\ analytics["last30Days"].totalTransactions < analytics["allTime"].totalTransactions

(***************************************************************************)
(* Overlapping scheduler ticks                                             *)
(*                                                                         *)
(* The cron callback of start() (lines 526-532) tests initialScanCompleted *)
(* only; it fires again while an earlier updateTransactions is suspended   *)
(* at an await.  The second invocation runs on the same object: it shares  *)
(* lastProcessedBlock, processedBlocks and the files, and has its own      *)
(* locals, kept in overlap.  Each of its steps is the code between two     *)
(* awaits; its RPC calls and file writes succeed.                          *)
(***************************************************************************)
\* the invocation of pc is suspended at an await (Promise.allSettled of line
\* 283, saveProgress of line 315) or has returned: the event loop is free
FirstSuspended == pc \in {"await", "save", "idle"}

RECURSIVE FirstOpenBatch(_, _, _)
\* lines 259-274: the start of the first batch from bs on that has an
\* unprocessed block, or a value above to when the loop ends
FirstOpenBatch(bs, to, done) ==
    IF bs > to THEN bs
    ELSE IF UnprocessedIn(bs, Min(bs + BatchSize - 1, to), done) # << >> THEN bs
         ELSE FirstOpenBatch(bs + BatchSize, to, done)

\* lines 259-282: the locals of the second invocation when its loop continues
\* at batch start bs: suspended at the allSettled of the first chunk, or
\* returned
OverlapAtBatch(bs, to, fetched, done) ==
    LET b == FirstOpenBatch(bs, to, done) IN
    IF b > to THEN NoOverlap
    ELSE LET cs == chunkArray(UnprocessedIn(b, Min(b + BatchSize - 1, to), done),
                              MaxConcurrentRequests)
         IN [pc |-> "await", toBlock |-> to, batchStart |-> b, chunks |-> cs,
             all |-> << >>, fetched |-> fetched \cup SeqSet(Head(cs))]

RECURSIVE ChunkRows(_)
\* lines 344-355: the records processBlockParallel returns for the blocks of a
\* chunk when every call succeeds
ChunkRows(chunk) ==
    IF chunk = << >> THEN << >>
    ELSE ScannedRows(Head(chunk), Head(chunk)) \o ChunkRows(Tail(chunk))

\* lines 526-528 and 546-548: the callback fires while the earlier invocation
\* awaits its RPC results, and awaits getLatestBlockNumber
SecondTick ==
    /\ pc = "await"
    /\ caller = "update"
    /\ initialScanCompleted
    /\ overlap.pc = "none"
    /\ overlap' = [NoOverlap EXCEPT !.pc = "latest"]
    /\ UNCHANGED << memory, disk, pc, scanLocals, latest, ghosts >>
    /\ UNCHANGED << anVars, rpcVars, spinVars >>

\* lines 548-561 and 240-282: the latest block arrives, the range is computed
\* from the lastProcessedBlock of that moment
SecondLatest(h) ==
    /\ FirstSuspended
    /\ overlap.pc = "latest"
    /\ h >= latest
    /\ latest' = h
    /\ overlap' = IF UpdateStart > h THEN NoOverlap
                  ELSE OverlapAtBatch(UpdateStart, UpdateEnd(h), {}, processedBlocks)
    /\ UNCHANGED << memory, disk, pc, scanLocals, ghosts >>
    /\ UNCHANGED << anVars, rpcVars, spinVars >>

\* lines 283-305: allSettled returns, the blocks of the chunk are marked and
\* the delay of line 304 is awaited
SecondChunkJoin ==
    /\ FirstSuspended
    /\ overlap.pc = "await"
    /\ processedBlocks' = processedBlocks \cup SeqSet(Head(overlap.chunks))
    /\ lastProcessedBlock' = Max(lastProcessedBlock, SetMax(SeqSet(Head(overlap.chunks))))
    /\ overlap' = [overlap EXCEPT !.pc = "delay",
                                  !.all = @ \o ChunkRows(Head(overlap.chunks))]
    /\ UNCHANGED << startBlock, initialScanCompleted, disk, pc, scanLocals, latest, ghosts >>
    /\ UNCHANGED << anVars, rpcVars, spinVars >>

\* lines 281-282 and 309-315: after the delay the next chunk is requested, or
\* the batch is handed to saveTransactionsToCSV or saveProgress
SecondDelayOver ==
    /\ FirstSuspended
    /\ overlap.pc = "delay"
    /\ LET rest == Tail(overlap.chunks) IN
       overlap' = IF rest # << >>
                  THEN [overlap EXCEPT !.pc = "await", !.chunks = rest,
                                       !.fetched = @ \cup SeqSet(Head(rest))]
                  ELSE [overlap EXCEPT !.pc = IF overlap.all # << >> THEN "append" ELSE "save",
                                       !.chunks = rest]
    /\ UNCHANGED << memory, disk, pc, scanLocals, latest, ghosts >>
    /\ UNCHANGED << anVars, rpcVars, spinVars >>

\* lines 309-312 and 485-495: appendFile has written the batch's rows
SecondAppend ==
    /\ FirstSuspended
    /\ overlap.pc = "append"
    /\ csv' = csv \o overlap.all
    /\ overlap' = [overlap EXCEPT !.pc = "save"]
    /\ UNCHANGED << memory, csvExists, progressFile, pc, scanLocals, latest, ghosts >>
    /\ UNCHANGED << anVars, rpcVars, spinVars >>

\* line 315 and the next iteration of the loop of line 259
SecondSaveProgress ==
    /\ FirstSuspended
    /\ overlap.pc = "save"
    /\ progressFile' = ProgressRecord(lastProcessedBlock, processedBlocks,
                                      initialScanCompleted, startBlock)
    /\ overlap' = OverlapAtBatch(overlap.batchStart + BatchSize, overlap.toBlock,
                                 overlap.fetched, processedBlocks)
    /\ UNCHANGED << memory, csvExists, csv, pc, scanLocals, latest, ghosts >>
    /\ UNCHANGED << anVars, rpcVars, spinVars >>

\* the tracker after an initial scan that ended at block 1, the scheduler
\* running
OvInit ==
    /\ startBlock = 1
    /\ lastProcessedBlock = 1
    /\ processedBlocks = {1}
    /\ initialScanCompleted = TRUE
    /\ csvExists = TRUE
    /\ csv = ScannedRows(1, 1)
    /\ progressFile = ProgressRecord(1, {1}, TRUE, 1)
    /\ pc = "idle"
    /\ caller = "none"
    /\ toBlock = 0
    /\ batchStart = 0
    /\ chunks = << >>
    /\ allBatchTransactions = << >>
    /\ jobs = << >>
    /\ latest = 1
    /\ inv = NoInv
    /\ deferred = {}
    /\ unappended = {}
    /\ faults = 0
    /\ crashes = 0
    /\ clean = TRUE
    /\ overlap = NoOverlap
    /\ AnalyzerOff
    /\ RpcOff
    /\ SpinsOff

OvNext ==
    \/ \E h \in 1..MaxHead : ScheduledTick(h)
    \/ ScanLoopExit
    \/ BatchPlan
    \/ ChunkStart
    \/ \E b \in 1..MaxHead : BlockReply(b)
    \/ \E b \in 1..MaxHead, i \in 1..2 : ReceiptReply(b, i, "ok")
    \/ ChunkJoin
    \/ BatchAppend
    \/ BatchSaveProgress(TRUE)
    \/ ScanReturn
    \/ SecondTick
    \/ \E h \in 1..MaxHead : SecondLatest(h)
    \/ SecondChunkJoin
    \/ SecondDelayOver
    \/ SecondAppend
    \/ SecondSaveProgress

OvSpec == OvInit /\ [][OvNext]_vars

\* C28: when a scheduler tick fires while an earlier updateTransactions is
\* awaiting RPC results, no block is fetched by both invocations, and no
\* transaction is appended to the ledger more than once
C28_NoDoubleWrite ==
    /\ overlap.pc # "none" => inv.fetched \cap overlap.fetched = {}
    /\ \A i, j \in 1..Len(csv) : csv[i].transactionHash = csv[j].transactionHash => i = j

(***************************************************************************)
(* Properties of performInitialScan and the scheduler                      *)
(***************************************************************************)
\* C29: once performInitialScan has returned, with or without an error,
\* initialScanCompleted is true, so that no scheduler tick is skipped as
\* "initial scan still in progress"
C29_UpdatesEventuallyStart ==
    /\ pc = "idle" => initialScanCompleted
    /\ ~ ENABLED TickSkipped

(***************************************************************************)
(* spins_calc.js: findMidnightSpins                                        *)
(*                                                                         *)
(* A log entry is the pair parseLogLine returns: its timestamp, kept as    *)
(* UTC day, hour and minute, and its totalSpins, a natural number (\d+).   *)
(* The log is written in the order of time.                                *)
(***************************************************************************)
MaxSpinDays == 2
MaxLogLines == 3

SpinHours == {0, 12, 23}
SpinMinutes == {5, 55}
SpinTotals == {1, 3}

LogEntries ==
    [day : 1..MaxSpinDays, hour : SpinHours, minute : SpinMinutes, totalSpins : SpinTotals]

Instant(e) == (e.day * 24 + e.hour) * 60 + e.minute

\* getDateKey (lines 17-19): the UTC date of the timestamp
getDateKey(e) == e.day

\* isDayCompleted (lines 22-24)
isDayCompleted(entries) == \E i \in 1..Len(entries) : entries[i].hour = 23

\* the comparator of lines 48-64
CompareEntries(a, b) ==
    IF a.hour = 23 /\ b.hour # 23 THEN -1
    ELSE IF b.hour = 23 /\ a.hour # 23 THEN 1
    ELSE IF a.hour = 22 /\ b.hour # 22 THEN -1
    ELSE IF b.hour = 22 /\ a.hour # 22 THEN 1
    ELSE IF a.hour = 21 /\ b.hour # 21 THEN -1
    ELSE IF b.hour = 21 /\ a.hour # 21 THEN 1
    ELSE IF a.hour = 0 /\ b.hour # 0 THEN -1
    ELSE IF b.hour = 0 /\ a.hour # 0 THEN 1
    ELSE a.minute - b.minute

RECURSIVE InsertEntry(_, _)
InsertEntry(sorted, e) ==
    IF sorted = << >> THEN << e >>
    ELSE IF CompareEntries(e, Head(sorted)) < 0 THEN << e >> \o sorted
         ELSE << Head(sorted) >> \o InsertEntry(Tail(sorted), e)

RECURSIVE SortEntries(_)
\* Array.prototype.sort with the comparator of lines 48-64 (a stable sort)
SortEntries(entries) ==
    IF entries = << >> THEN << >>
    ELSE InsertEntry(SortEntries(SubSeq(entries, 1, Len(entries) - 1)), entries[Len(entries)])

\* lines 31-37: the entries of one date, in the order of the log
EntriesOfDate(log, date) == SelectSeq(log, LAMBDA e : getDateKey(e) = date)

RECURSIVE MidnightEntries(_, _, _)
\* lines 40-76: one record per completed date from date d on, sorted by date
MidnightEntries(log, d, last) ==
    IF d > last THEN << >>
    ELSE LET entries == EntriesOfDate(log, d) IN
         (IF entries = << >> \/ ~isDayCompleted(entries) THEN << >>
          ELSE LET midnightEntry == Head(SortEntries(entries)) IN
               << [date |-> d, totalSpins |-> midnightEntry.totalSpins,
                   timestamp |-> [hour |-> midnightEntry.hour,
                                  minute |-> midnightEntry.minute]] >>)
         \o MidnightEntries(log, d + 1, last)

\* lines 81-107
SpinsPerDay(result) ==
    [i \in 1..Len(result) |->
        LET current == result[i]
            spinsForDay ==
                IF i = 1 THEN current.totalSpins
                ELSE IF current.totalSpins - result[i - 1].totalSpins < 0
                     THEN current.totalSpins
                     ELSE current.totalSpins - result[i - 1].totalSpins
        IN [date |-> current.date, spins |-> spinsForDay,
            totalSpins |-> current.totalSpins, timestamp |-> current.timestamp]]

\* findMidnightSpins (lines 27-110)
findMidnightSpins(log) ==
    SpinsPerDay(MidnightEntries(log, 1, SetMax({ getDateKey(log[i]) : i \in 1..Len(log) })))

RECURSIVE ChronologicalLogs(_)
\* the logs of at most n entries whose timestamps increase
ChronologicalLogs(n) ==
    IF n = 0 THEN { << >> }
    ELSE LET shorter == ChronologicalLogs(n - 1) IN
         shorter \cup
         { Append(x[1], x[2]) :
             x \in { y \in shorter \X LogEntries :
                       y[1] = << >> \/ Instant(y[1][Len(y[1])]) < Instant(y[2]) } }

\* main, lines 159-171: the entries parsed from the log file
SpinInit ==
    /\ logData \in ChronologicalLogs(MaxLogLines)
    /\ spinsPc = "parsed"
    /\ dailySpinsResult = << >>
    /\ TrackerOff
    /\ AnalyzerOff
    /\ RpcOff

\* main, lines 175-178: no entry was found
NoEntriesFound ==
    /\ spinsPc = "parsed"
    /\ Len(logData) = 0
    /\ spinsPc' = "done"
    /\ UNCHANGED << logData, dailySpinsResult >>
    /\ UNCHANGED << trackerVars, anVars, rpcVars >>

\* main, line 182
FindMidnightSpins ==
    /\ spinsPc = "parsed"
    /\ Len(logData) > 0
    /\ dailySpinsResult' = findMidnightSpins(logData)
    /\ spinsPc' = "done"
    /\ UNCHANGED logData
    /\ UNCHANGED << trackerVars, anVars, rpcVars >>

SpinNext == NoEntriesFound \/ FindMidnightSpins

SpinSpec == SpinInit /\ [][SpinNext]_vars

\* the entry of the log with the latest timestamp among those of date d
LatestOfDate(log, d) ==
    LET entries == EntriesOfDate(log, d) IN
    CHOOSE e \in SeqSet(entries) : \A x \in SeqSet(entries) : Instant(x) <= Instant(e)

\* the dates of the log that have an entry in UTC hour 23
CompletedDates(log) == { log[i].day : i \in { j \in 1..Len(log) : log[j].hour = 23 } }

\* C30: findMidnightSpins reports exactly the days that have an entry in UTC
\* hour 23, in the order of the dates; for each it uses the latest entry of
\* the day; the reported spins are the difference to the previous reported
\* day's total, or the day's own total for the first day and when the
\* difference is negative, and are never negative
C30_DailySpins ==
    spinsPc = "done" =>
        LET r == dailySpinsResult IN
        /\ { r[i].date : i \in 1..Len(r) } = CompletedDates(logData)
        /\ \A i \in 1..(Len(r) - 1) : r[i].date < r[i + 1].date
        /\ \A i \in 1..Len(r) :
              LET e == LatestOfDate(logData, r[i].date) IN
              /\ r[i].totalSpins = e.totalSpins
              /\ r[i].timestamp = [hour |-> e.hour, minute |-> e.minute]
        /\ \A i \in 1..Len(r) :
              /\ r[i].spins >= 0
              /\ r[i].spins =
                    IF i = 1 \/ r[i].totalSpins < r[i - 1].totalSpins
                    THEN r[i].totalSpins
                    ELSE r[i].totalSpins - r[i - 1].totalSpins

====
